---- MODULE Spec2Model ----
(***************************************************************************)
(* Model of the Merlin agent job service (pkg/services/job/job.go):        *)
(* the command-to-job builder (Add, AddJobChannel, buildJob), the          *)
(* check-in dispatcher (Get, Handler, checkJob, fileTransfer), the         *)
(* clear operations, the service singleton (NewJobService) and the SOCKS   *)
(* worker (socksJobs).                                                     *)
(*                                                                         *)
(* The job repository (pkg/jobs/memory), the JobInfo type (pkg/jobs) and   *)
(* the agent service (pkg/services/agent) are not part of the sources at   *)
(* hand; they are modelled from the specification (Repo*, NewInfo,         *)
(* Register).                                                              *)
(*                                                                         *)
(* Go strings are TLA+ strings, byte slices are sequences of 0..255.       *)
(* Timestamps (created, sent, completed) are left out: no operation reads  *)
(* them.  Identifiers and tokens, random in the program, are drawn fresh   *)
(* from a counter.                                                         *)
(***************************************************************************)
EXTENDS Integers, Sequences, FiniteSets, TLC

(***************************************************************************)
(* Bounds of the model.                                                    *)
(***************************************************************************)
\* JobInfo records (jobs.NewInfo calls) per run
MaxJobs == 2
\* NewJobService calls per run
MaxNew == 2
\* frames the SOCKS layer puts on socks.JobsOut per run
MaxFrames == 2

(***************************************************************************)
(* Strings and bytes.                                                      *)
(***************************************************************************)
\* the printable ASCII characters, code 32 (space) to 95 (_) and 97 (a) to
\* 126 (~)
AsciiLow == " !\"#$%&'()*+,-./0123456789:;<=>?@ABCDEFGHIJKLMNOPQRSTUVWXYZ[\\]^_"

CharAt(s, i) == SubSeq(s, i, i)

\* the byte of a one-character string (printable ASCII only)
Ord(c) ==
    IF \E i \in 1..Len(AsciiLow) : CharAt(AsciiLow, i) = c
    THEN 31 + (CHOOSE i \in 1..Len(AsciiLow) : CharAt(AsciiLow, i) = c)
    ELSE 96 + (CHOOSE i \in 1..30 :
                  CharAt("abcdefghijklmnopqrstuvwxyz{|}~", i) = c)

\* []byte(s)
Bytes(s) == [i \in 1..Len(s) |-> Ord(CharAt(s, i))]

\* the index of the last occurrence of character c in s, 0 when absent
RECURSIVE LastIndex(_, _)
LastIndex(s, c) ==
    IF Len(s) = 0 THEN 0
    ELSE IF CharAt(s, Len(s)) = c THEN Len(s)
    ELSE LastIndex(SubSeq(s, 1, Len(s) - 1), c)

\* strings.Join(args, " ")
RECURSIVE Join(_)
Join(args) ==
    IF Len(args) = 0 THEN ""
    ELSE IF Len(args) = 1 THEN args[1]
    ELSE args[1] \o " " \o Join(Tail(args))

Digits == "0123456789"

\* fmt.Sprintf("%d", n) for n >= 0
RECURSIVE Itoa(_)
Itoa(n) ==
    IF n < 10 THEN CharAt(Digits, n + 1)
    ELSE Itoa(n \div 10) \o CharAt(Digits, (n % 10) + 1)

(***************************************************************************)
(* encoding/base64, StdEncoding (RFC 4648 alphabet, '=' padding).          *)
(***************************************************************************)
B64Alphabet == "ABCDEFGHIJKLMNOPQRSTUVWXYZabcdefghijklmnopqrstuvwxyz0123456789+/"

IsB64Char(c) == \E i \in 1..64 : CharAt(B64Alphabet, i) = c

B64Val(c) == (CHOOSE i \in 1..64 : CharAt(B64Alphabet, i) = c) - 1

B64Chr(v) == CharAt(B64Alphabet, v + 1)

\* base64.StdEncoding.EncodeToString
RECURSIVE StdEncode(_)
StdEncode(b) ==
    IF Len(b) = 0 THEN ""
    ELSE IF Len(b) = 1 THEN
        B64Chr(b[1] \div 4) \o B64Chr((b[1] % 4) * 16) \o "=="
    ELSE IF Len(b) = 2 THEN
        B64Chr(b[1] \div 4) \o B64Chr((b[1] % 4) * 16 + b[2] \div 16)
            \o B64Chr((b[2] % 16) * 4) \o "="
    ELSE
        B64Chr(b[1] \div 4) \o B64Chr((b[1] % 4) * 16 + b[2] \div 16)
            \o B64Chr((b[2] % 16) * 4 + b[3] \div 64) \o B64Chr(b[3] % 64)
            \o StdEncode(SubSeq(b, 4, Len(b)))

\* one quantum of four characters; ok is FALSE on a character outside the
\* alphabet or on misplaced padding
DecodeQuantum(q, last) ==
    LET c1 == CharAt(q, 1)
        c2 == CharAt(q, 2)
        c3 == CharAt(q, 3)
        c4 == CharAt(q, 4)
    IN  IF ~(IsB64Char(c1) /\ IsB64Char(c2)) THEN [ok |-> FALSE, bytes |-> <<>>]
        ELSE IF c3 = "=" THEN
            IF last /\ c4 = "="
            THEN [ok |-> TRUE, bytes |-> <<B64Val(c1) * 4 + B64Val(c2) \div 16>>]
            ELSE [ok |-> FALSE, bytes |-> <<>>]
        ELSE IF ~IsB64Char(c3) THEN [ok |-> FALSE, bytes |-> <<>>]
        ELSE IF c4 = "=" THEN
            IF last
            THEN [ok |-> TRUE,
                  bytes |-> <<B64Val(c1) * 4 + B64Val(c2) \div 16,
                              (B64Val(c2) % 16) * 16 + B64Val(c3) \div 4>>]
            ELSE [ok |-> FALSE, bytes |-> <<>>]
        ELSE IF ~IsB64Char(c4) THEN [ok |-> FALSE, bytes |-> <<>>]
        ELSE [ok |-> TRUE,
              bytes |-> <<B64Val(c1) * 4 + B64Val(c2) \div 16,
                          (B64Val(c2) % 16) * 16 + B64Val(c3) \div 4,
                          (B64Val(c3) % 4) * 64 + B64Val(c4)>>]

\* base64.StdEncoding.DecodeString (input without line breaks)
RECURSIVE StdDecode(_)
StdDecode(s) ==
    IF Len(s) = 0 THEN [ok |-> TRUE, bytes |-> <<>>]
    ELSE IF Len(s) < 4 THEN [ok |-> FALSE, bytes |-> <<>>]
    ELSE LET q == DecodeQuantum(SubSeq(s, 1, 4), Len(s) = 4)
             r == StdDecode(SubSeq(s, 5, Len(s)))
         IN  IF q.ok /\ r.ok
             THEN [ok |-> TRUE, bytes |-> q.bytes \o r.bytes]
             ELSE [ok |-> FALSE, bytes |-> <<>>]

\* strings.ToLower on ASCII letters
UpperCase == "ABCDEFGHIJKLMNOPQRSTUVWXYZ"

LowerChar(c) ==
    IF \E i \in 1..26 : CharAt(UpperCase, i) = c
    THEN CharAt("abcdefghijklmnopqrstuvwxyz",
                CHOOSE i \in 1..26 : CharAt(UpperCase, i) = c)
    ELSE c

RECURSIVE ToLower(_)
ToLower(s) ==
    IF Len(s) = 0 THEN "" ELSE LowerChar(Head(s)) \o ToLower(Tail(s))

\* strings.TrimSpace (spaces only: the model has no other white space)
RECURSIVE TrimLeft(_)
TrimLeft(s) ==
    IF Len(s) > 0 /\ Head(s) = " " THEN TrimLeft(Tail(s)) ELSE s

RECURSIVE TrimRight(_)
TrimRight(s) ==
    IF Len(s) > 0 /\ CharAt(s, Len(s)) = " "
    THEN TrimRight(SubSeq(s, 1, Len(s) - 1))
    ELSE s

TrimSpace(s) == TrimRight(TrimLeft(s))

(***************************************************************************)
(* Identifiers.                                                            *)
(***************************************************************************)
\* the agents that can register with the server
Agents == {"a1", "a2"}

\* the threads that call Handler and NewJobService at the same time
Threads == 1..MaxNew

\* the broadcast identifier that stands for every known agent
BroadcastID == "ffffffff-ffff-ffff-ffff-ffffffffffff"

\* uuid.Nil, the token and the agent of a job that has none yet
NilUUID == "00000000-0000-0000-0000-000000000000"

\* the ID of a job that has none yet
EmptyID == ""

\* the n-th identifier and the n-th token that jobs.NewInfo draws
InfoID(n) == "j" \o Itoa(n)

InfoToken(n) == "t" \o Itoa(n)

\* the identifier and the token the SOCKS layer gives the frames of its
\* connection
SocksID == "s1"

SocksToken == "st1"

\* no error
Nil == "nil"

\* the status of a JobInfo
CREATED == "CREATED"

SENT == "SENT"

ACTIVE == "ACTIVE"

COMPLETE == "COMPLETE"

CANCELED == "CANCELED"

RETURNED == "RETURNED"

(***************************************************************************)
(* State.                                                                  *)
(***************************************************************************)
VARIABLES
    known,          \* agent service: the agents known to the server
    queue,          \* job repository: agent -> sequence of queued jobs
    info,           \* job repository: JobInfo id -> JobInfo
    nextId,         \* number of JobInfo records jobs.NewInfo has made
    files,          \* data/agents: the files written by fileTransfer
    memoryService,  \* the package variable: 0 (nil) or the instance
    instances,      \* number of Service instances constructed
    workers,        \* number of running socksJobs goroutines
    newCalls,       \* number of NewJobService calls made
    jobsOut,        \* the channel socks.JobsOut
    framesOut,      \* number of frames the SOCKS layer has sent
    held,           \* worker -> the frame it received and the buildJob it
                    \* runs for it
    calls,          \* thread -> the call it is in: Add, AddJobChannel,
                    \* GetTableActive, Handler or NewJobService
    added,          \* history: agent -> the jobs buildJob queued, in order
    got,            \* history: agent -> the jobs taken from the queue, in order
    ret,            \* the call the last step completed: operation, inputs,
                    \* results; [op |-> "none"] when it completed none
    effects         \* what that call logged, broadcast, wrote, forwarded

repoVars == <<queue, info, nextId, added, got>>

serviceVars == <<memoryService, instances, workers, newCalls>>

socksVars == <<jobsOut, framesOut, held>>

vars ==
    <<known, repoVars, files, serviceVars, socksVars, calls, ret, effects>>

\* no call in progress, no frame held
None == [none |-> TRUE]

(***************************************************************************)
(* pkg/jobs and pkg/jobs/memory, from the specification.                   *)
(***************************************************************************)
\* jobs.NewInfo: a record with a fresh id and a fresh token, status CREATED
NewInfo(n, agentID, jobType, command) ==
    [id |-> InfoID(n), agentID |-> agentID, jobType |-> jobType,
     command |-> command, token |-> InfoToken(n), status |-> CREATED]

\* info.Complete(), info.Active()
InfoComplete(i) == [i EXCEPT !.status = COMPLETE]

InfoActive(i) == [i EXCEPT !.status = ACTIVE]

\* a repository that puts a new job first in the agent's queue
RepoAddFirst(r, job, jobInfo) ==
    IF jobInfo.id \in DOMAIN r.info THEN r
    ELSE [queue |-> [r.queue EXCEPT ![job.AgentID] = <<job>> \o @],
          info |-> (jobInfo.id :> jobInfo) @@ r.info]

\* Repository.Add: inserts the job and the info; fails, changing nothing,
\* when the info's id is already present.  r is [queue, info].
RepoAdd(r, job, jobInfo) ==
    IF jobInfo.id \in DOMAIN r.info THEN r
    ELSE [queue |-> [r.queue EXCEPT ![job.AgentID] = Append(@, job)],
          info |-> (jobInfo.id :> jobInfo) @@ r.info]

\* the status a drain gives the JobInfo of a job it returns
RepoMarkSent(i) == [i EXCEPT !.status = SENT]

\* the ids of the jobs in a sequence
JobIDs(js) == {js[k].ID : k \in 1..Len(js)}

\* Repository.GetJobs: removes and returns the agent's queued jobs in
\* insertion order; the JobInfo of each becomes SENT
RepoGetJobs(r, agentID) ==
    [jobs |-> r.queue[agentID],
     queue |-> [r.queue EXCEPT ![agentID] = <<>>],
     info |-> [id \in DOMAIN r.info |->
                  IF id \in JobIDs(r.queue[agentID])
                  THEN RepoMarkSent(r.info[id]) ELSE r.info[id]]]

\* a Clear that forgets the JobInfo of the jobs it removes
RepoClearForget(r, agentID) ==
    [queue |-> [r.queue EXCEPT ![agentID] = <<>>],
     info |-> [id \in (DOMAIN r.info) \ JobIDs(r.queue[agentID]) |->
                  r.info[id]]]

\* Repository.Clear: removes the agent's queued jobs; their JobInfo becomes
\* CANCELED
RepoClear(r, agentID) ==
    [queue |-> [r.queue EXCEPT ![agentID] = <<>>],
     info |-> [id \in DOMAIN r.info |->
                  IF id \in JobIDs(r.queue[agentID])
                  THEN [r.info[id] EXCEPT !.status = CANCELED]
                  ELSE r.info[id]]]

\* Repository.ClearAll: the same for every agent
RepoClearAll(r) ==
    [queue |-> [a \in DOMAIN r.queue |-> <<>>],
     info |-> [id \in DOMAIN r.info |->
                  IF \E a \in DOMAIN r.queue : id \in JobIDs(r.queue[a])
                  THEN [r.info[id] EXCEPT !.status = CANCELED]
                  ELSE r.info[id]]]

\* Repository.GetInfo
RepoGetInfo(r, id) ==
    IF id \in DOMAIN r.info
    THEN [err |-> Nil, info |-> r.info[id]]
    ELSE [err |-> "job not found", info |-> None]

\* Repository.UpdateInfo: replaces the record by id; fails when the id is
\* unknown
RepoUpdateInfo(r, jobInfo) ==
    IF jobInfo.id \in DOMAIN r.info
    THEN [err |-> Nil,
          r |-> [r EXCEPT !.info = [@ EXCEPT ![jobInfo.id] = jobInfo]]]
    ELSE [err |-> "job not found", r |-> r]

(***************************************************************************)
(* Effects: what a call does outside the repository.                       *)
(***************************************************************************)
\* agent.Log / agentService.Log: a line in the agent's log file
LogEntry(agentID, jobID, what) ==
    [kind |-> "log", agent |-> agentID, job |-> jobID, what |-> what]

\* messageAPI.SendBroadcastMessage
BroadcastMsg(level, agentID, jobID, what) ==
    [kind |-> "broadcast", level |-> level, agent |-> agentID, job |-> jobID,
     what |-> what]

\* cli.MessageChannel <- msg
CliMsg(agentID, jobID, what) ==
    [kind |-> "cli", agent |-> agentID, job |-> jobID, what |-> what]

\* socks.In(job)
SocksIn(agentID, jobID) ==
    [kind |-> "socks.In", agent |-> agentID, job |-> jobID, what |-> "frame"]

\* agentService.UpdateAgentInfo
AgentInfoUpdate(agentID, jobID) ==
    [kind |-> "UpdateAgentInfo", agent |-> agentID, job |-> jobID,
     what |-> "info"]

\* ioutil.WriteFile
FileWrite(agentID, jobID, name) ==
    [kind |-> "write", agent |-> agentID, job |-> jobID, what |-> name]

(***************************************************************************)
(* buildJob                                                                *)
(***************************************************************************)
\* the arguments of the summary, cut to 30 characters
Truncate30(args) ==
    IF Len(args) > 30 THEN SubSeq(args, 1, 30) \o "..." ELSE args

\* TRUE when building the summary aborts abnormally: a type assertion on a
\* payload of another shape, or an index out of range
SummaryPanics(job, jobArgs) ==
    CASE job.Type \in {"CONTROL", "MODULE", "NATIVE"} ->
            \/ job.Payload.kind # "Command"
            \/ /\ job.Type = "MODULE"
               /\ ToLower(job.Payload.Command) = "clr"
               /\ Len(job.Payload.Args) = 0
      [] job.Type = "CMD" -> job.Payload.kind # "Command"
      [] job.Type = "FILETRANSFER" ->
            \/ job.Payload.kind # "FileTransfer"
            \/ job.Payload.IsDownload /\ Len(jobArgs) = 3
      [] job.Type = "SHELLCODE" -> job.Payload.kind # "Shellcode"
      [] job.Type = "SOCKS" -> job.Payload.kind # "Socks"
      [] OTHER -> FALSE

\* fmt.Sprintf("%+v", payload): the fields of the payload with their names.
\* The frames of the model carry no data.  The fields of messages.AgentInfo
\* are not given: "..." stands for them.
PayloadString(p) ==
    LET bool(b) == IF b THEN "true" ELSE "false"
    IN  CASE p = None -> "<nil>"
          [] p.kind = "Results" ->
                "{Stdout:" \o p.Stdout \o " Stderr:" \o p.Stderr \o "}"
          [] p.kind = "Command" ->
                "{Command:" \o p.Command \o " Args:[" \o Join(p.Args) \o "]}"
          [] p.kind = "FileTransfer" ->
                "{FileLocation:" \o p.FileLocation \o " FileBlob:"
                    \o p.FileBlob \o " IsDownload:" \o bool(p.IsDownload)
                    \o "}"
          [] p.kind = "Shellcode" ->
                "{Method:" \o p.Method \o " Bytes:" \o p.Bytes \o " PID:"
                    \o p.PID \o "}"
          [] p.kind = "Socks" ->
                "{ID:" \o p.ID \o " Index:" \o Itoa(p.Index)
                    \o " Data:[] Close:" \o bool(p.Close) \o "}"
          [] p.kind = "AgentInfo" -> "{...}"
          [] OTHER -> "{}"

\* the Command field of the JobInfo
Summary(job, jobArgs) ==
    CASE job.Type \in {"CONTROL", "MODULE", "NATIVE"} ->
            job.Payload.Command \o " " \o Truncate30(Join(job.Payload.Args))
      [] job.Type = "CMD" ->
            IF ToLower(job.Payload.Command) = "shell"
            THEN TrimSpace(job.Payload.Command \o " "
                           \o Truncate30(Join(job.Payload.Args)))
            ELSE TrimSpace("run " \o job.Payload.Command \o " "
                           \o Truncate30(Join(job.Payload.Args)))
      [] job.Type = "FILETRANSFER" ->
            IF job.Payload.IsDownload
            THEN IF Len(jobArgs) > 2
                 THEN "upload " \o jobArgs[1] \o " " \o jobArgs[2]
                 ELSE ""
            ELSE IF Len(jobArgs) > 0
                 THEN "download " \o jobArgs[1]
                 ELSE ""
      [] job.Type = "SHELLCODE" ->
            "shellcode " \o job.Payload.Method \o " " \o job.Payload.PID
                \o " length " \o Itoa(Len(job.Payload.Bytes))
      [] job.Type = "SOCKS" ->
            "SOCKS connection " \o job.Payload.ID \o " packet "
                \o Itoa(job.Payload.Index)
      [] OTHER -> job.Type \o " " \o PayloadString(job.Payload)

\* the lines buildJob writes to the agent's log before the job is stored
SummaryLog(agentID, job, jobArgs) ==
    CASE /\ job.Type = "MODULE"
         /\ ToLower(job.Payload.Command) = "clr"
         /\ ToLower(job.Payload.Args[1]) = "load-assembly"
         /\ Len(jobArgs) > 2 ->
            <<LogEntry(agentID, job.ID, "loading assembly")>>
      [] /\ job.Type = "FILETRANSFER"
         /\ job.Payload.IsDownload
         /\ Len(jobArgs) > 2 ->
            <<LogEntry(agentID, job.ID, "uploading file")>>
      [] /\ job.Type = "FILETRANSFER"
         /\ ~job.Payload.IsDownload
         /\ Len(jobArgs) > 0 ->
            <<LogEntry(agentID, job.ID, "downloading file")>>
      [] OTHER -> <<>>

\* the job always given the id and the token of the new JobInfo
StampJobFresh(job, agentID, jobInfo) ==
    [job EXCEPT !.AgentID = agentID,
                !.Token = jobInfo.token,
                !.ID = jobInfo.id]

\* the job as buildJob leaves it behind the caller's pointer: the agent is
\* set, a token and an ID are taken from the new JobInfo only where the job
\* has none
StampJob(job, agentID, jobInfo) ==
    [job EXCEPT !.AgentID = agentID,
                !.Token = IF @ = NilUUID THEN jobInfo.token ELSE @,
                !.ID = IF @ = EmptyID THEN jobInfo.id ELSE @]

\* buildJob without the look-up of the agent
BuildJobAgentAny(knownAgents, agentID, job, jobArgs) ==
    IF SummaryPanics([job EXCEPT !.AgentID = agentID], jobArgs)
    THEN "panic" ELSE Nil

\* buildJob(agentID, job, jobArgs) down to the summary: the look-up of the
\* agent in the directory, then the switch on the type of the job.  Yields
\* the error of the look-up, "panic" where the switch aborts, or Nil.
BuildJobAgent(knownAgents, agentID, job, jobArgs) ==
    IF agentID \notin knownAgents THEN "unknown agent"
    ELSE IF SummaryPanics([job EXCEPT !.AgentID = agentID], jobArgs)
    THEN "panic" ELSE Nil

\* buildJob from jobs.NewInfo on, for an agent the look-up found: the new
\* JobInfo, the token and the ID of the job, jobRepo.Add in repository
\* r = [queue, info] with n JobInfo records made so far, and the log lines.
\* Yields the repository, the counter, the job behind the pointer and the
\* effects.
BuildJobAdd(r, n, agentID, job, jobArgs) ==
    LET j0 == [job EXCEPT !.AgentID = agentID]
        jobInfo == NewInfo(n + 1, agentID, j0.Type, Summary(j0, jobArgs))
        j1 == StampJob(job, agentID, jobInfo)
    IN  [r |-> RepoAdd(r, j1, jobInfo),
         n |-> n + 1,
         job |-> j1,
         fx |-> SummaryLog(agentID, j0, jobArgs)
                    \o <<LogEntry(agentID, j1.ID, "created job")>>]

(***************************************************************************)
(* Add: the command vocabulary                                             *)
(***************************************************************************)
\* the files of the server's disk that Add can read: path -> contents
ServerFiles == [p \in {"/tmp/x"} |-> "hello"]

\* ioutil.ReadFile
ReadFile(path) ==
    IF path \in DOMAIN ServerFiles
    THEN [err |-> Nil, data |-> ServerFiles[path]]
    ELSE [err |-> "no such file", data |-> ""]

\* the SHA-256 digest of the data printed with %s: an opaque string, one per
\* contents
Sha256String(data) == "sha256(" \o data \o ")"

\* filepath.Split: the directory with its trailing slash, and the file
PathSplit(path) ==
    [dir |-> SubSeq(path, 1, LastIndex(path, "/")),
     file |-> SubSeq(path, LastIndex(path, "/") + 1, Len(path))]

RECURSIVE StripSlashes(_)
StripSlashes(path) ==
    IF Len(path) > 0 /\ CharAt(path, Len(path)) = "/"
    THEN StripSlashes(SubSeq(path, 1, Len(path) - 1))
    ELSE path

\* filepath.Base
PathBase(path) ==
    IF path = "" THEN "."
    ELSE IF StripSlashes(path) = "" THEN "/"
    ELSE PathSplit(StripSlashes(path)).file

\* the digits of s read as a decimal number
RECURSIVE DigitsValue(_)
DigitsValue(s) ==
    IF Len(s) = 0 THEN 0
    ELSE DigitsValue(SubSeq(s, 1, Len(s) - 1)) * 10
            + ((CHOOSE i \in 1..10 : CharAt(Digits, i) = CharAt(s, Len(s))) - 1)

AllDigits(s) ==
    /\ Len(s) > 0
    /\ \A i \in 1..Len(s) : \E k \in 1..10 : CharAt(Digits, k) = CharAt(s, i)

\* strconv.Atoi: an optional sign and decimal digits
Atoi(s) ==
    IF Len(s) > 0 /\ Head(s) \in {"+", "-"} THEN
        IF AllDigits(Tail(s))
        THEN [ok |-> TRUE,
              val |-> IF Head(s) = "-" THEN 0 - DigitsValue(Tail(s))
                      ELSE DigitsValue(Tail(s))]
        ELSE [ok |-> FALSE, val |-> 0]
    ELSE IF AllDigits(s) THEN [ok |-> TRUE, val |-> DigitsValue(s)]
    ELSE [ok |-> FALSE, val |-> 0]

\* uint32(i) in decimal, for an i of up to 31 bits: i itself when i >= 0,
\* 4294967296 + i when i < 0 (computed in two halves of the decimal number,
\* the lower one in six digits)
Uint32(i) ==
    IF i >= 0 THEN Itoa(i)
    ELSE LET low == 967296 + i
             borrow == IF low >= 0 THEN 0 ELSE ((0 - low) - 1) \div 1000000 + 1
             six == Itoa(low + borrow * 1000000)
         IN  Itoa(4294 - borrow) \o SubSeq("000000", 1, 6 - Len(six)) \o six

\* jobs.Command
Command(name, args) == [kind |-> "Command", Command |-> name, Args |-> args]

\* jobs.FileTransfer
FileTransfer(location, blob, isDownload) ==
    [kind |-> "FileTransfer", FileLocation |-> location, FileBlob |-> blob,
     IsDownload |-> isDownload]

\* jobs.Shellcode; the PID, a uint32, is kept as its decimal numeral
Shellcode(method, pid, bytes) ==
    [kind |-> "Shellcode", Method |-> method, PID |-> pid, Bytes |-> bytes]

\* jobs.Socks
Socks(id, index, close) ==
    [kind |-> "Socks", ID |-> id, Index |-> index, Close |-> close]

\* jobs.Results
Results(stdout, stderr) ==
    [kind |-> "Results", Stdout |-> stdout, Stderr |-> stderr]

\* messages.AgentInfo; valid is the answer UpdateAgentInfo will give
AgentInfo(valid) == [kind |-> "AgentInfo", Valid |-> valid]

\* a jobs.Job
Job(id, agentID, token, type, payload) ==
    [ID |-> id, AgentID |-> agentID, Token |-> token, Type |-> type,
     Payload |-> payload]

\* what the switch of Add yields: a job of the given type and payload with
\* neither ID, agent nor token
Built(type, payload, jobArgs) ==
    [outcome |-> "ok",
     job |-> Job(EmptyID, NilUUID, NilUUID, type, payload),
     jobArgs |-> jobArgs]

\* Add returns an error
Fails(msg, jobArgs) == [outcome |-> msg, job |-> None, jobArgs |-> jobArgs]

\* Add aborts abnormally: an index out of range
Panics(jobArgs) == [outcome |-> "panic", job |-> None, jobArgs |-> jobArgs]

\* jobArgs[1:]
Rest(jobArgs) == SubSeq(jobArgs, 2, Len(jobArgs))

\* the kinds whose command is jobArgs[0] and whose arguments are the second
\* argument when there are exactly two
ControlFirstArg == {"ja3", "killdate", "maxretry", "padding", "skew", "sleep"}

\* the kinds that pass jobType and jobArgs on unchanged, by type
PlainModule == {"CreateProcess", "memory", "Minidump", "netstat", "runas",
                "ssh", "token", "link", "listener", "unlink"}

PlainNative == {"env", "nslookup", "sdelete", "touch", "killprocess", "cd"}

\* the kinds that take no argument, by type
BareControl == {"agentInfo", "initialize"}

BareModule == {"pipes", "ps", "uptime"}

\* the shellcode methods that take a PID
PidMethods == {"remote", "rtlcreateuserthread", "userapc"}

AddShellcode(jobArgs) ==
    IF Len(jobArgs) < 1 THEN Panics(jobArgs)
    ELSE IF jobArgs[1] = "self" THEN
        IF Len(jobArgs) < 2 THEN Panics(jobArgs)
        ELSE Built("SHELLCODE", Shellcode("self", "0", jobArgs[2]), jobArgs)
    ELSE IF jobArgs[1] \in PidMethods THEN
        IF Len(jobArgs) < 2 THEN Panics(jobArgs)
        ELSE IF ~Atoi(jobArgs[2]).ok THEN Fails("invalid syntax", jobArgs)
        ELSE IF Len(jobArgs) < 3 THEN Panics(jobArgs)
        ELSE Built("SHELLCODE",
                   Shellcode(jobArgs[1], Uint32(Atoi(jobArgs[2]).val),
                             jobArgs[3]),
                   jobArgs)
    ELSE Built("SHELLCODE", Shellcode(jobArgs[1], "0", ""), jobArgs)

AddLoadAssembly(jobType, jobArgs) ==
    IF Len(jobArgs) < 1 THEN Fails("expected 1 argument", jobArgs)
    ELSE IF ReadFile(jobArgs[1]).err # Nil THEN Fails("read error", jobArgs)
    ELSE LET assembly == ReadFile(jobArgs[1]).data
             name == IF Len(jobArgs) > 1 THEN jobArgs[2]
                     ELSE PathBase(jobArgs[1])
         IN  Built("MODULE",
                   Command("clr", <<jobType, StdEncode(Bytes(assembly)), name>>),
                   Append(jobArgs, Sha256String(assembly)))

AddMemfd(jobType, jobArgs) ==
    IF Len(jobArgs) < 1 THEN Fails("expected 1 argument", jobArgs)
    ELSE IF ReadFile(jobArgs[1]).err # Nil THEN Fails("read error", jobArgs)
    ELSE Built("MODULE",
               Command(jobType,
                       <<StdEncode(Bytes(ReadFile(jobArgs[1]).data))>>
                           \o Rest(jobArgs)),
               jobArgs)

\* the upload case with the flag of a download
AddUploadFlag(jobArgs) ==
    IF Len(jobArgs) < 2 THEN Fails("expected 2 arguments", jobArgs)
    ELSE IF ReadFile(jobArgs[1]).err # Nil THEN Fails("read error", jobArgs)
    ELSE LET uploadFile == ReadFile(jobArgs[1]).data
             withHash == IF Len(jobArgs) > 2
                         THEN [jobArgs EXCEPT ![3] = Sha256String(uploadFile)]
                         ELSE Append(jobArgs, Sha256String(uploadFile))
             withSize == IF Len(withHash) > 3
                         THEN [withHash EXCEPT ![4] = Itoa(Len(uploadFile))]
                         ELSE Append(withHash, Itoa(Len(uploadFile)))
         IN  Built("FILETRANSFER",
                   FileTransfer(withSize[2], StdEncode(Bytes(uploadFile)),
                                FALSE),
                   withSize)

AddUpload(jobArgs) ==
    IF Len(jobArgs) < 2 THEN Fails("expected 2 arguments", jobArgs)
    ELSE IF ReadFile(jobArgs[1]).err # Nil THEN Fails("read error", jobArgs)
    ELSE LET uploadFile == ReadFile(jobArgs[1]).data
             withHash == IF Len(jobArgs) > 2
                         THEN [jobArgs EXCEPT ![3] = Sha256String(uploadFile)]
                         ELSE Append(jobArgs, Sha256String(uploadFile))
             withSize == IF Len(withHash) > 3
                         THEN [withHash EXCEPT ![4] = Itoa(Len(uploadFile))]
                         ELSE Append(withHash, Itoa(Len(uploadFile)))
         IN  Built("FILETRANSFER",
                   FileTransfer(withSize[2], StdEncode(Bytes(uploadFile)), TRUE),
                   withSize)

\* the switch of Add on jobType
AddSwitch(jobType, jobArgs) ==
    CASE jobType \in BareControl ->
            Built("CONTROL", Command(jobType, <<>>), jobArgs)
      [] jobType = "ifconfig" ->
            Built("NATIVE", Command(jobType, <<>>), jobArgs)
      [] jobType \in BareModule ->
            Built("MODULE", Command(jobType, <<>>), jobArgs)
      [] jobType = "list-assemblies" ->
            Built("MODULE", Command("clr", <<"list-assemblies">>), jobArgs)
      [] jobType \in PlainModule ->
            Built("MODULE", Command(jobType, jobArgs), jobArgs)
      [] jobType \in PlainNative ->
            Built("NATIVE", Command(jobType, jobArgs), jobArgs)
      [] jobType = "shell" ->
            Built("CMD", Command(jobType, jobArgs), jobArgs)
      [] jobType = "ls" ->
            Built("NATIVE",
                  Command("ls", IF Len(jobArgs) > 0 THEN jobArgs ELSE <<"./">>),
                  jobArgs)
      [] jobType = "download" ->
            IF Len(jobArgs) < 1 THEN Panics(jobArgs)
            ELSE Built("FILETRANSFER", FileTransfer(jobArgs[1], "", FALSE),
                       jobArgs)
      [] jobType = "changelistener" ->
            IF Len(jobArgs) < 1 THEN Panics(jobArgs)
            ELSE Built("CONTROL",
                       Command(jobArgs[1],
                               IF Len(jobArgs) >= 2 THEN Rest(jobArgs)
                               ELSE <<>>),
                       jobArgs)
      [] jobType = "exit" ->
            IF Len(jobArgs) < 1 THEN Panics(jobArgs)
            ELSE Built("CONTROL", Command(jobArgs[1], <<>>), jobArgs)
      [] jobType = "pwd" ->
            IF Len(jobArgs) < 1 THEN Panics(jobArgs)
            ELSE Built("NATIVE", Command(jobArgs[1], <<>>), jobArgs)
      [] jobType = "rm" ->
            IF Len(jobArgs) < 1 THEN Panics(jobArgs)
            ELSE Built("NATIVE", Command(jobType, <<jobArgs[1]>>), jobArgs)
      [] jobType \in ControlFirstArg ->
            IF Len(jobArgs) < 1 THEN Panics(jobArgs)
            ELSE Built("CONTROL",
                       Command(jobArgs[1],
                               IF Len(jobArgs) = 2 THEN Rest(jobArgs)
                               ELSE <<>>),
                       jobArgs)
      [] jobType \in {"run", "exec"} ->
            IF Len(jobArgs) < 1 THEN Panics(jobArgs)
            ELSE Built("CMD",
                       Command(jobArgs[1],
                               IF Len(jobArgs) > 1 THEN Rest(jobArgs)
                               ELSE <<>>),
                       jobArgs)
      [] jobType \in {"invoke-assembly", "load-clr"} ->
            IF Len(jobArgs) < 1 THEN Fails("expected 1 argument", jobArgs)
            ELSE Built("MODULE", Command("clr", <<jobType>> \o jobArgs),
                       jobArgs)
      [] jobType = "load-assembly" -> AddLoadAssembly(jobType, jobArgs)
      [] jobType = "memfd" -> AddMemfd(jobType, jobArgs)
      [] jobType = "shellcode" -> AddShellcode(jobArgs)
      [] jobType = "upload" -> AddUpload(jobArgs)
      [] OTHER -> Fails("invalid job type", jobArgs)

(***************************************************************************)
(* checkJob, fileTransfer, Handler.  Handler holds no lock: between two of *)
(* its calls to the agent service, the repository and the file system      *)
(* other callers run.  A Handler call in progress is a record with         *)
(*   agentJobs, i   the batch and the index of the job whose turn it is    *)
(*   pc             the call the thread makes next                         *)
(*   jobInfo        the JobInfo that GetInfo returned at the job's turn    *)
(*   fs             the directories as os.Stat and WriteFile found them    *)
(*   msg            the error fileTransfer is about to log and return      *)
(*   knew, pre, at  for each turn so far: whether Exist found the agent,   *)
(*                  the status the call last read for the job, and the     *)
(*                  length of fx when the turn began                       *)
(*   updated        the JobInfo records the call has written back          *)
(*   fx             what the call has logged, broadcast, written, sent on  *)
(*   err            the error the call returns                             *)
(* Messages and log lines go with the step before which they are sent.     *)
(***************************************************************************)
\* checkJob after its test of the agent: the job is known, the token is the
\* stored one, the job is neither complete nor canceled
CheckInfo(r, job) ==
    IF RepoGetInfo(r, job.ID).err # Nil THEN "job not found"
    ELSE IF job.Token # RepoGetInfo(r, job.ID).info.token THEN "bad token"
    ELSE IF RepoGetInfo(r, job.ID).info.status = COMPLETE
         THEN "previously completed"
    ELSE IF RepoGetInfo(r, job.ID).info.status = CANCELED
         THEN "previously canceled"
    ELSE Nil

\* the directory the downloads of the agents go to, under the working
\* directory of the server
AgentsDir == "data/agents"

\* filepath.Join(agentsDir, agentID, f) for a file name without separator
DownloadPath(agentID, f) ==
    IF f = ".." THEN AgentsDir
    ELSE IF f \in {"", "."} THEN AgentsDir \o "/" \o agentID
    ELSE AgentsDir \o "/" \o agentID \o "/" \o f

\* ioutil.WriteFile(path, data, 0600) for the path DownloadPath gives for
\* the file name f, with data/agents present.  With the agent's directory
\* present the write fails when the path names a directory (no file name,
\* "." or ".."); with the directory missing it fails for want of the parent
\* directory, except where the path is the directory's own name (no file
\* name or "."): there it makes a regular file of that name.
WriteFails(fs, f) ==
    IF fs.agentDir THEN f \in {"", ".", ".."} ELSE f \notin {"", "."}

\* the files after ioutil.WriteFile(path, data, 0600)
WriteFile(fls, path, data) ==
    {x \in fls : x.path # path}
        \cup {[path |-> path, data |-> data, mode |-> "0600"]}

\* the log lines and broadcasts of a RESULT job
ResultEffects(job) ==
    <<LogEntry(job.AgentID, job.ID, "results for job"),
      BroadcastMsg("note", job.AgentID, job.ID, "results job")>>
    \o (IF Len(job.Payload.Stdout) > 0
        THEN <<LogEntry(job.AgentID, job.ID, "stdout"),
               BroadcastMsg("success", job.AgentID, job.ID, "stdout")>>
        ELSE <<>>)
    \o (IF Len(job.Payload.Stderr) > 0
        THEN <<LogEntry(job.AgentID, job.ID, "stderr"),
               BroadcastMsg("warn", job.AgentID, job.ID, "stderr")>>
        ELSE <<>>)

\* every dispatched job made COMPLETE
AdvanceComplete(job, jobInfo) == InfoComplete(jobInfo)

\* the JobInfo after a dispatched job: ACTIVE for a SOCKS frame that does
\* not close the connection, COMPLETE otherwise
Advance(job, jobInfo) ==
    IF job.Type = "SOCKS"
    THEN IF job.Payload.Close THEN InfoComplete(jobInfo)
         ELSE InfoActive(jobInfo)
    ELSE InfoComplete(jobInfo)

\* the status of the JobInfo of a job id, "none" when there is none
StatusOf(r, id) ==
    IF id \in DOMAIN r.info THEN r.info[id].status ELSE "none"

\* the state of the file system a call takes for granted until it looks
FsOK == [agentsDir |-> TRUE, agentDir |-> TRUE]

\* the job whose turn it is in the loop of call c
JobAt(c) == c.agentJobs[c.i]

\* the end of the loop body: the next job of the batch gets its turn, and
\* after the last one Handler returns
Turn(c) ==
    IF c.i < Len(c.agentJobs)
    THEN [c EXCEPT !.i = @ + 1, !.pc = "Exist", !.jobInfo = None]
    ELSE [c EXCEPT !.pc = "return"]

\* return err
ReturnErr(c, err) == [c EXCEPT !.pc = "return", !.err = err]

\* a job of an unknown agent that ends the call with an error
UnknownAgentStrict(c) ==
    [c EXCEPT !.pc = "return", !.err = "invalid agent",
              !.fx = Append(@, BroadcastMsg("warn", JobAt(c).AgentID,
                                            JobAt(c).ID, "invalid agent"))]

\* the else branch of Handler: a warning is broadcast for a job whose agent
\* Exist did not find, and the loop goes on
UnknownAgent(c) ==
    Turn([c EXCEPT !.fx = Append(@, BroadcastMsg("warn", JobAt(c).AgentID,
                                                 JobAt(c).ID,
                                                 "invalid agent"))])

\* Handler after checkJob returned e: an error ends the call unless the job
\* is a RESULT; otherwise the switch on the type of the job, which calls
\* UpdateAgentInfo or fileTransfer, or logs, broadcasts or forwards on the
\* way to UpdateInfo
Checked(c, e) ==
    IF e # Nil /\ JobAt(c).Type # "RESULT" THEN ReturnErr(c, e)
    ELSE [c EXCEPT !.pc = CASE JobAt(c).Type = "AGENTINFO" ->
                                   "UpdateAgentInfo"
                            [] JobAt(c).Type = "FILETRANSFER" ->
                                   "fileTransfer"
                            [] OTHER -> "UpdateInfo"]

\* Handler from the head of the loop to the switch, one call at a time:
\* Exist, Agent and GetInfo of Handler, then Exist and GetInfo of checkJob.
\* K is the set of known agents and r the repository at that moment.
HandlerEntry(c, K, r) ==
    CASE c.pc = "Exist" ->
            IF c.i > Len(c.agentJobs) THEN [c EXCEPT !.pc = "return"]
            ELSE IF JobAt(c).AgentID \in K
            THEN [c EXCEPT !.pc = "Agent", !.knew = Append(@, TRUE),
                           !.pre = Append(@, StatusOf(r, JobAt(c).ID)),
                           !.at = Append(@, Len(c.fx))]
            ELSE UnknownAgent(
                     [c EXCEPT !.knew = Append(@, FALSE),
                               !.pre = Append(@, StatusOf(r, JobAt(c).ID)),
                               !.at = Append(@, Len(c.fx))])
      [] c.pc = "Agent" ->
            IF JobAt(c).AgentID \in K THEN [c EXCEPT !.pc = "GetInfo"]
            ELSE ReturnErr(c, "agent not found")
      [] c.pc = "GetInfo" ->
            IF RepoGetInfo(r, JobAt(c).ID).err # Nil
            THEN ReturnErr([c EXCEPT !.pre[c.i] = "none"], "job not found")
            ELSE [c EXCEPT !.pc = "checkJob",
                           !.jobInfo = RepoGetInfo(r, JobAt(c).ID).info,
                           !.pre[c.i] = StatusOf(r, JobAt(c).ID)]
      [] c.pc = "checkJob" ->
            IF JobAt(c).AgentID \in K THEN [c EXCEPT !.pc = "checkJob.GetInfo"]
            ELSE Checked(c, "invalid agent")
      [] c.pc = "checkJob.GetInfo" ->
            Checked([c EXCEPT !.pre[c.i] = StatusOf(r, JobAt(c).ID)],
                    CheckInfo(r, JobAt(c)))

\* fileTransfer(job.AgentID, job.Payload), one call at a time: Exist,
\* os.Stat (then the first broadcast and the decoding), ioutil.WriteFile
\* (then the second broadcast), and agentService.Log of the error or of the
\* success.  fs is what the file system shows at that moment, fls the files
\* written so far.
FileTransferStep(c, K, fls, fs) ==
    LET a == JobAt(c).AgentID
        p == JobAt(c).Payload
        f == PathSplit(p.FileLocation).file
        results == BroadcastMsg("success", a, JobAt(c).ID, "results for")
    IN  CASE c.pc = "fileTransfer" ->
                [files |-> fls,
                 c |-> IF a \notin K THEN ReturnErr(c, "not a valid agent")
                       ELSE IF ~p.IsDownload THEN [c EXCEPT !.pc = "UpdateInfo"]
                       ELSE [c EXCEPT !.pc = "os.Stat"]]
          [] c.pc = "os.Stat" ->
                [files |-> fls,
                 c |-> IF ~fs.agentsDir
                       THEN [c EXCEPT !.pc = "Log.error", !.fs = fs,
                                      !.msg = "error locating the agent's directory"]
                       ELSE IF ~StdDecode(p.FileBlob).ok
                       THEN [c EXCEPT !.pc = "Log.error", !.fs = fs,
                                      !.msg = "error decoding the fileBlob",
                                      !.fx = Append(@, results)]
                       ELSE [c EXCEPT !.pc = "WriteFile", !.fs = fs,
                                      !.fx = Append(@, results)]]
          [] c.pc = "WriteFile" ->
                IF WriteFails(fs, f)
                THEN [files |-> fls,
                      c |-> [c EXCEPT !.pc = "Log.error", !.fs = fs,
                                      !.msg = "error writing"]]
                ELSE [files |-> WriteFile(fls, DownloadPath(a, f),
                                          StdDecode(p.FileBlob).bytes),
                      c |-> [c EXCEPT
                                !.pc = "Log", !.fs = fs,
                                !.fx = @ \o
                                    <<FileWrite(a, JobAt(c).ID,
                                                DownloadPath(a, f)),
                                      BroadcastMsg("success", a, JobAt(c).ID,
                                                   "downloaded file")>>]]
          [] c.pc = "Log.error" ->
                [files |-> fls,
                 c |-> IF a \in K
                       THEN ReturnErr([c EXCEPT !.fx = Append(@,
                                          LogEntry(a, JobAt(c).ID, c.msg))],
                                      c.msg)
                       ELSE ReturnErr(c, "there were to errors")]
          [] c.pc = "Log" ->
                [files |-> fls,
                 c |-> IF a \in K
                       THEN [c EXCEPT !.pc = "UpdateInfo",
                                      !.fx = Append(@,
                                          LogEntry(a, JobAt(c).ID,
                                                   "downloaded file"))]
                       ELSE ReturnErr(c, "agent not found")]

\* one step of a Handler call c: K the known agents, r the repository, fls
\* the files and fs the directories at that moment.  The result is the call
\* after the step with the JobInfo records and the files the step leaves.
HandlerStepOf(c, K, r, fls, fs) ==
    CASE c.pc \in {"Exist", "Agent", "GetInfo", "checkJob",
                   "checkJob.GetInfo"} ->
            [c |-> HandlerEntry(c, K, r), info |-> r.info, files |-> fls]
      [] c.pc = "UpdateAgentInfo" ->
            [info |-> r.info, files |-> fls,
             c |-> IF JobAt(c).AgentID \in K /\ JobAt(c).Payload.Valid
                   THEN [c EXCEPT !.pc = "UpdateInfo",
                                  !.fx = Append(@,
                                      AgentInfoUpdate(JobAt(c).AgentID,
                                                      JobAt(c).ID))]
                   ELSE ReturnErr(c, "UpdateAgentInfo failed")]
      [] c.pc = "UpdateInfo" ->
            LET jobInfo == Advance(JobAt(c), c.jobInfo)
                u == RepoUpdateInfo(r, jobInfo)
                d == [c EXCEPT !.fx = @ \o
                        CASE JobAt(c).Type = "RESULT" ->
                                ResultEffects(JobAt(c))
                          [] JobAt(c).Type = "SOCKS" ->
                                <<SocksIn(JobAt(c).AgentID, JobAt(c).ID)>>
                          [] OTHER -> <<>>]
            IN  IF u.err # Nil
                THEN [c |-> ReturnErr(d, "job not found"), info |-> r.info,
                      files |-> fls]
                ELSE [c |-> Turn([d EXCEPT !.updated = Append(@, jobInfo)]),
                      info |-> u.r.info, files |-> fls]
      [] OTHER ->
            [c |-> FileTransferStep(c, K, fls, fs).c, info |-> r.info,
             files |-> FileTransferStep(c, K, fls, fs).files]

\* what the file system can show a call at its next step: os.Stat finds
\* data/agents or not; ioutil.WriteFile finds the directory of the agent or
\* not, and not where a regular file of that name was written
FsSeen(c, fls) ==
    CASE c.pc = "os.Stat" -> {[c.fs EXCEPT !.agentsDir = b] : b \in BOOLEAN}
      [] c.pc = "WriteFile" ->
            {[c.fs EXCEPT !.agentDir = b] :
                b \in {x \in BOOLEAN :
                          x => \A y \in fls :
                                  y.path # DownloadPath(JobAt(c).AgentID, "")}}
      [] OTHER -> {c.fs}

(***************************************************************************)
(* Inputs of the operations.                                               *)
(***************************************************************************)
\* the commands the operator submits: <<jobType, jobArgs>>
AddInputs ==
    {<<"sleep", <<"sleep", "30s">>>>,
     <<"download", <<"/etc/passwd">>>>,
     <<"upload", <<"/tmp/nofile", "/c/x">>>>,
     <<"invoke-assembly", <<>>>>,
     <<"bogus", <<>>>>}

\* the targets of a command
Targets == Agents \cup {BroadcastID}

\* the type of an inbound job, from the shape of its payload
TypeOfPayload(p) ==
    CASE p.kind = "Results" -> "RESULT"
      [] p.kind = "AgentInfo" -> "AGENTINFO"
      [] p.kind = "FileTransfer" -> "FILETRANSFER"
      [] p.kind = "Socks" -> "SOCKS"
      [] OTHER -> "CONTROL"

\* the connection of the SOCKS layer
SocksConn == "c1"

\* the payloads agents send in
InPayloads ==
    {Results("out", ""),
     AgentInfo(TRUE),
     AgentInfo(FALSE),
     FileTransfer("/etc/passwd", "Zm9v", TRUE),
     FileTransfer("/etc/passwd", "Zm9", TRUE),
     Socks(SocksConn, 1, FALSE),
     Socks(SocksConn, 1, TRUE),
     Command("sleep", <<"30s">>)}

\* the inbound jobs: with an id handed out so far or the one of the SOCKS
\* layer, and with the token stored for the id or the token of the SOCKS
\* layer, which is never the stored one
InJobs ==
    {j \in {Job(id, a, t, TypeOfPayload(p), p) :
               id \in {InfoID(k) : k \in 1..nextId} \cup {SocksID},
               a \in Agents,
               t \in {InfoToken(k) : k \in 1..nextId} \cup {SocksToken},
               p \in InPayloads} :
        j.Token \in (IF j.ID \in DOMAIN info THEN {info[j.ID].token} ELSE {})
                    \cup {SocksToken}}

\* the jobs a caller hands to AddJobChannel: one that has neither ID nor
\* token, and one that has both
ChannelJobs ==
    {Job(EmptyID, NilUUID, NilUUID, "CONTROL", Command("exit", <<>>)),
     Job(SocksID, NilUUID, SocksToken, "SOCKS", Socks(SocksConn, 1, FALSE))}

\* the orders in which agentService.Agents() can list the agents in S
Orderings(S) ==
    {o \in [1..Cardinality(S) -> S] : \A i, j \in DOMAIN o : o[i] = o[j] => i = j}

\* the repository as the operators above take it
Repo == [queue |-> queue, info |-> info]

\* what a successful buildJob b made for an agent
Created(b, agentID) ==
    [agent |-> agentID, jobID |-> b.job.ID, jobToken |-> b.job.Token,
     infoID |-> InfoID(b.n), infoToken |-> InfoToken(b.n)]

(***************************************************************************)
(* Initial state: no service constructed, no agent registered.             *)
(***************************************************************************)
Init ==
    /\ known = {}
    /\ queue = [a \in Agents |-> <<>>]
    /\ info = <<>>
    /\ nextId = 0
    /\ files = {}
    /\ memoryService = 0
    /\ instances = 0
    /\ workers = 0
    /\ newCalls = 0
    /\ jobsOut = <<>>
    /\ framesOut = 0
    /\ held = [w \in 1..MaxNew |-> None]
    /\ calls = [t \in Threads |-> None]
    /\ added = [a \in Agents |-> <<>>]
    /\ got = [a \in Agents |-> <<>>]
    /\ ret = [op |-> "none"]
    /\ effects = <<>>

(***************************************************************************)
(* The agent service: agents register and are removed.                     *)
(***************************************************************************)
Register(a) ==
    /\ a \notin known
    /\ known' = known \cup {a}
    /\ UNCHANGED <<calls, repoVars, files, serviceVars, socksVars, ret,
                   effects>>

\* removeAgent in the agent menu
RemoveAgent(a) ==
    /\ a \in known
    /\ known' = known \ {a}
    /\ UNCHANGED <<calls, repoVars, files, serviceVars, socksVars, ret,
                   effects>>

(***************************************************************************)
(* Add and AddJobChannel.  They hold no lock: between the listing of the   *)
(* agents, the look-up of an agent in buildJob and jobRepo.Add other       *)
(* callers run.  An Add or AddJobChannel call in progress is a record with *)
(*   agent            the target: an agent or the broadcast identifier     *)
(*   jobType, jobArgs0  the arguments of Add                               *)
(*   job, jobArgs     the job behind the pointer and the arguments that    *)
(*                    buildJob gets                                        *)
(*   todo             the agents buildJob is still to be called for        *)
(*   pc               the call buildJob makes next: "Agent" (the look-up)  *)
(*                    or "Add" (jobRepo.Add)                               *)
(*   snap             the agents agentService.Agents() listed              *)
(*   created, fx      what the call has stored and logged so far           *)
(***************************************************************************)
\* thread t is in no call: it has made none, or has come back from
\* NewJobService with the service
Idle(t) ==
    IF calls[t] = None THEN TRUE
    ELSE calls[t].op = "NewJobService" /\ calls[t].pc = "done"

\* the result of an Add that made nothing
AddFailed(agentID, jobType, jobArgs, err) ==
    [op |-> "Add", agent |-> agentID, jobType |-> jobType,
     jobArgs |-> jobArgs, err |-> err, snap |-> {}, created |-> <<>>]

\* what a call c of Add or AddJobChannel returns with error err
AddResult(c, err) ==
    [op |-> c.op, agent |-> c.agent, jobType |-> c.jobType,
     jobArgs |-> c.jobArgs0, err |-> err, snap |-> c.snap,
     created |-> c.created]

\* the head of AddJobChannel for thread t: agentService.Agents() lists the
\* agents; for the broadcast identifier the call fails when there is none
\* and otherwise goes through them in the order of the list, for an agent
\* it goes on to the one buildJob
AddJobChannelHead(t, op, agentID, jobType, jobArgs0, job, jobArgs) ==
    IF agentID = BroadcastID /\ known = {} THEN
        /\ ret' = [AddFailed(agentID, jobType, jobArgs0, "0 available agents")
                       EXCEPT !.op = op]
        /\ effects' = <<>>
        /\ UNCHANGED calls
    ELSE
        /\ \E o \in (IF agentID = BroadcastID THEN Orderings(known)
                     ELSE {<<agentID>>}) :
              calls' = [calls EXCEPT ![t] =
                           [op |-> op, pc |-> "Agent", agent |-> agentID,
                            jobType |-> jobType, jobArgs0 |-> jobArgs0,
                            job |-> job, jobArgs |-> jobArgs, todo |-> o,
                            snap |-> IF agentID = BroadcastID THEN known
                                     ELSE {agentID},
                            created |-> <<>>, fx |-> <<>>]]
        /\ ret' = [op |-> "none"]
        /\ effects' = <<>>

\* thread t calls Add(agentID, jobType, jobArgs): the switch, then the head
\* of AddJobChannel
Add(t, agentID, jobType, jobArgs) ==
    /\ memoryService # 0
    /\ Idle(t)
    /\ nextId < MaxJobs
    /\ UNCHANGED <<known, repoVars, files, serviceVars, socksVars>>
    /\ \E sw \in {AddSwitch(jobType, jobArgs)} :
          IF sw.outcome # "ok" THEN
              /\ ret' = AddFailed(agentID, jobType, jobArgs, sw.outcome)
              /\ effects' = <<>>
              /\ UNCHANGED calls
          ELSE AddJobChannelHead(t, "Add", agentID, jobType, jobArgs, sw.job,
                                 sw.jobArgs)

\* thread t calls AddJobChannel(agentID, job, jobArgs) with a job of its own
AddJobChannel(t, agentID, job, jobArgs) ==
    /\ memoryService # 0
    /\ Idle(t)
    /\ nextId < MaxJobs
    /\ UNCHANGED <<known, repoVars, files, serviceVars, socksVars>>
    /\ AddJobChannelHead(t, "AddJobChannel", agentID, "", jobArgs, job,
                         jobArgs)

\* thread t goes on with its Add or AddJobChannel call: the look-up of
\* buildJob for the next agent, whose error ends the call, or its
\* jobRepo.Add, after which the next agent of the list gets its turn with
\* the same job pointer
AddJobChannelStep(t) ==
    /\ calls[t] # None
    /\ calls[t].op \in {"Add", "AddJobChannel"}
    /\ LET c == calls[t]
           a == Head(c.todo)
       IN  IF c.pc = "Agent" THEN
               /\ \E e \in {BuildJobAgent(known, a, c.job, c.jobArgs)} :
                     IF e # Nil
                     THEN /\ calls' = [calls EXCEPT ![t] = None]
                          /\ ret' = AddResult(c, e)
                          /\ effects' = c.fx
                     ELSE /\ calls' = [calls EXCEPT ![t].pc = "Add"]
                          /\ ret' = [op |-> "none"]
                          /\ effects' = <<>>
               /\ UNCHANGED repoVars
           ELSE
               /\ nextId < MaxJobs
               /\ \E b \in {BuildJobAdd(Repo, nextId, a, c.job, c.jobArgs)} :
                     LET d == [c EXCEPT !.pc = "Agent", !.job = b.job,
                                        !.todo = Tail(@),
                                        !.created = Append(@, Created(b, a)),
                                        !.fx = @ \o b.fx]
                     IN  /\ queue' = b.r.queue
                         /\ info' = b.r.info
                         /\ nextId' = b.n
                         /\ added' = [added EXCEPT ![a] = Append(@, b.job)]
                         /\ IF d.todo = <<>>
                            THEN /\ calls' = [calls EXCEPT ![t] = None]
                                 /\ ret' = AddResult(d, Nil)
                                 /\ effects' = d.fx
                            ELSE /\ calls' = [calls EXCEPT ![t] = d]
                                 /\ ret' = [op |-> "none"]
                                 /\ effects' = <<>>
               /\ UNCHANGED got
    /\ UNCHANGED <<known, files, serviceVars, socksVars>>

(***************************************************************************)
(* Get, Clear, ClearAll                                                    *)
(***************************************************************************)
Get(agentID) ==
    /\ memoryService # 0
    /\ \E g \in {RepoGetJobs(Repo, agentID)} :
          /\ queue' = g.queue
          /\ info' = g.info
          /\ got' = [got EXCEPT ![agentID] = @ \o g.jobs]
          /\ ret' = [op |-> "Get", agent |-> agentID, err |-> Nil,
                     jobs |-> g.jobs]
    /\ effects' = <<>>
    /\ UNCHANGED <<known, calls, nextId, added, files, serviceVars, socksVars>>

\* a cleared job counts as taken from the queue
Clear(agentID) ==
    /\ memoryService # 0
    /\ queue' = RepoClear(Repo, agentID).queue
    /\ info' = RepoClear(Repo, agentID).info
    /\ got' = [got EXCEPT ![agentID] = @ \o queue[agentID]]
    /\ ret' = [op |-> "Clear", agent |-> agentID, err |-> Nil,
               before |-> Repo]
    /\ effects' = <<>>
    /\ UNCHANGED <<known, calls, nextId, added, files, serviceVars, socksVars>>

ClearAll ==
    /\ memoryService # 0
    /\ queue' = RepoClearAll(Repo).queue
    /\ info' = RepoClearAll(Repo).info
    /\ got' = [a \in Agents |-> got[a] \o queue[a]]
    /\ ret' = [op |-> "ClearAll", err |-> Nil, before |-> Repo]
    /\ effects' = <<>>
    /\ UNCHANGED <<known, calls, nextId, added, files, serviceVars, socksVars>>

(***************************************************************************)
(* Handler                                                                 *)
(***************************************************************************)
\* thread t takes the next step of its Handler call c with the file system
\* showing fs; the call returns when the step was its last
Take(t, c, fs) ==
    /\ \E n \in {HandlerStepOf(c, known, Repo, files, fs)} :
          /\ info' = n.info
          /\ files' = n.files
          /\ IF n.c.pc = "return"
             THEN /\ calls' = [calls EXCEPT ![t] = None]
                  /\ ret' = [op |-> "Handler", agentJobs |-> n.c.agentJobs,
                             fs |-> n.c.fs, msg |-> n.c.msg, err |-> n.c.err,
                             pre |-> n.c.pre, knew |-> n.c.knew,
                             at |-> n.c.at, updated |-> n.c.updated]
                  /\ effects' = n.c.fx
             ELSE /\ calls' = [calls EXCEPT ![t] = n.c]
                  /\ ret' = [op |-> "none"]
                  /\ effects' = <<>>
    /\ UNCHANGED <<known, queue, nextId, added, got, serviceVars, socksVars>>

\* thread t calls Handler(agentJobs) and asks the agent service for the
\* agent of the first job
HandlerCall(t, agentJobs) ==
    /\ memoryService # 0
    /\ Idle(t)
    /\ Take(t, [op |-> "Handler", agentJobs |-> agentJobs, i |-> 1,
                pc |-> "Exist", jobInfo |-> None, fs |-> FsOK, msg |-> Nil,
                knew |-> <<>>, pre |-> <<>>, at |-> <<>>, updated |-> <<>>,
                fx |-> <<>>,
                err |-> Nil],
            FsOK)

\* thread t goes on with its Handler call
HandlerStep(t) ==
    /\ calls[t] # None
    /\ calls[t].op = "Handler"
    /\ \E fs \in FsSeen(calls[t], files) : Take(t, calls[t], fs)

(***************************************************************************)
(* The SOCKS layer and the socksJobs workers                               *)
(***************************************************************************)
\* the SOCKS layer puts a frame for an agent on socks.JobsOut
SocksSend(agentID, close) ==
    /\ framesOut < MaxFrames
    /\ framesOut' = framesOut + 1
    /\ jobsOut' = Append(jobsOut,
                         Job(SocksID, agentID, SocksToken, "SOCKS",
                             Socks(SocksConn, framesOut + 1, close)))
    /\ UNCHANGED <<known, calls, repoVars, files, serviceVars, held, ret,
                   effects>>

\* socksJobs: job := <-socks.JobsOut; buildJob is to look the agent up
SocksReceive(w) ==
    /\ w <= workers
    /\ held[w] = None
    /\ Len(jobsOut) > 0
    /\ held' = [held EXCEPT ![w] = [job |-> Head(jobsOut), pc |-> "Agent"]]
    /\ jobsOut' = Tail(jobsOut)
    /\ UNCHANGED <<known, calls, repoVars, files, serviceVars, framesOut, ret,
                   effects>>

\* socksJobs: worker w goes on with buildJob for the frame it holds: the
\* look-up of the agent, whose error goes to the CLI as a message, or
\* jobRepo.Add; then the worker is free for the next frame
SocksBuild(w) ==
    /\ w <= workers
    /\ held[w] # None
    /\ LET f == held[w].job
       IN  IF held[w].pc = "Agent" THEN
               /\ \E e \in {BuildJobAgent(known, f.AgentID, f, <<>>)} :
                     IF e # Nil
                     THEN /\ held' = [held EXCEPT ![w] = None]
                          /\ ret' = [op |-> "socksJobs", frame |-> f,
                                     err |-> e, created |-> <<>>]
                          /\ effects' =
                                <<CliMsg(f.AgentID, f.ID,
                                         "error creating a job for SOCKS traffic")>>
                     ELSE /\ held' = [held EXCEPT ![w].pc = "Add"]
                          /\ ret' = [op |-> "none"]
                          /\ effects' = <<>>
               /\ UNCHANGED repoVars
           ELSE
               /\ nextId < MaxJobs
               /\ \E b \in {BuildJobAdd(Repo, nextId, f.AgentID, f, <<>>)} :
                     /\ queue' = b.r.queue
                     /\ info' = b.r.info
                     /\ nextId' = b.n
                     /\ added' = [added EXCEPT
                                     ![f.AgentID] = Append(@, b.job)]
                     /\ ret' = [op |-> "socksJobs", frame |-> f, err |-> Nil,
                                created |-> <<Created(b, f.AgentID)>>]
                     /\ effects' = b.fx
               /\ held' = [held EXCEPT ![w] = None]
               /\ UNCHANGED got
    /\ UNCHANGED <<known, calls, files, serviceVars, jobsOut, framesOut>>

(***************************************************************************)
(* GetTableActive, GetTableAll                                             *)
(***************************************************************************)
\* the status column of GetTableActive
ActiveLabel(status) ==
    CASE status = ACTIVE -> "Active"
      [] status = CREATED -> "Created"
      [] status = SENT -> "Sent"
      [] status = RETURNED -> "Returned"
      [] OTHER -> "Unknown job status"

\* the status column of GetTableAll
AllLabel(status) ==
    CASE status = CREATED -> "Created"
      [] status = SENT -> "Sent"
      [] status = RETURNED -> "Returned"
      [] OTHER -> "Unknown job status"

\* the rows of GetTableActive: the jobs of the agent that are neither
\* complete nor canceled.  The rows come in the order of a map iteration, so
\* they are a set here; the two time columns are left out.
ActiveRows(r, agentID) ==
    {[id |-> id, command |-> r.info[id].command,
      status |-> ActiveLabel(r.info[id].status)] :
        id \in {x \in DOMAIN r.info :
                   /\ r.info[x].agentID = agentID
                   /\ r.info[x].status # COMPLETE
                   /\ r.info[x].status # CANCELED}}

\* the rows of GetTableAll
AllRows(r) ==
    {[agent |-> r.info[id].agentID, id |-> id,
      command |-> r.info[id].command,
      status |-> AllLabel(r.info[id].status)] :
        id \in {x \in DOMAIN r.info :
                   /\ r.info[x].status # COMPLETE
                   /\ r.info[x].status # CANCELED}}

\* thread t calls GetTableActive(agentID): agentService.Exist
GetTableActive(t, agentID) ==
    /\ memoryService # 0
    /\ Idle(t)
    /\ IF agentID \notin known
       THEN /\ ret' = [op |-> "GetTableActive", agent |-> agentID,
                       err |-> "not a valid agent", rows |-> {}]
            /\ UNCHANGED calls
       ELSE /\ ret' = [op |-> "none"]
            /\ calls' = [calls EXCEPT ![t] =
                            [op |-> "GetTableActive", pc |-> "GetAll",
                             agent |-> agentID]]
    /\ effects' = <<>>
    /\ UNCHANGED <<known, repoVars, files, serviceVars, socksVars>>

\* thread t goes on with its GetTableActive call: jobRepo.GetAll and the
\* rows of the agent
GetTableActiveStep(t) ==
    /\ calls[t] # None
    /\ calls[t].op = "GetTableActive"
    /\ ret' = [op |-> "GetTableActive", agent |-> calls[t].agent,
               err |-> Nil, rows |-> ActiveRows(Repo, calls[t].agent)]
    /\ calls' = [calls EXCEPT ![t] = None]
    /\ effects' = <<>>
    /\ UNCHANGED <<known, repoVars, files, serviceVars, socksVars>>

GetTableAll ==
    /\ memoryService # 0
    /\ ret' = [op |-> "GetTableAll", err |-> Nil, rows |-> AllRows(Repo)]
    /\ effects' = <<>>
    /\ UNCHANGED <<known, calls, repoVars, files, serviceVars, socksVars>>

(***************************************************************************)
(* NewJobService.  It takes no lock: a thread is between two of its        *)
(* statements while others run.                                            *)
(***************************************************************************)
\* NewJobService: the test memoryService == nil.  The threads are numbered
\* in the order in which they make the call.
NewEnter(t) ==
    /\ calls[t] = None
    /\ t = newCalls + 1
    /\ newCalls < MaxNew
    /\ newCalls' = newCalls + 1
    /\ calls' = [calls EXCEPT ![t] =
                    [op |-> "NewJobService", pc |-> "test",
                     isNil |-> memoryService = 0]]
    /\ UNCHANGED <<known, repoVars, files, memoryService, instances, workers,
                   socksVars, ret,
                   effects>>

\* NewJobService: memoryService = &Service{...} when the test found nil
NewMake(t) ==
    /\ calls[t] # None
    /\ calls[t].op = "NewJobService"
    /\ calls[t].pc = "test"
    /\ memoryService' = IF calls[t].isNil THEN instances + 1
                        ELSE memoryService
    /\ instances' = IF calls[t].isNil THEN instances + 1 ELSE instances
    /\ calls' = [calls EXCEPT ![t].pc = "go"]
    /\ UNCHANGED <<known, repoVars, files, workers, newCalls, socksVars, ret,
                   effects>>

\* NewJobService: go memoryService.socksJobs().  The statement stands after
\* the if, so every call starts a goroutine, on the instance the variable
\* holds at this read; the goroutine runs from here on, before the return
NewGo(t) ==
    /\ calls[t] # None
    /\ calls[t].op = "NewJobService"
    /\ calls[t].pc = "go"
    /\ workers' = workers + 1
    /\ calls' = [calls EXCEPT ![t] =
                    [op |-> "NewJobService", pc |-> "return",
                     worker |-> memoryService]]
    /\ UNCHANGED <<known, repoVars, files, memoryService, instances, newCalls,
                   socksVars, ret, effects>>

\* NewJobService: return memoryService, a second read of the variable
NewReturn(t) ==
    /\ calls[t] # None
    /\ calls[t].op = "NewJobService"
    /\ calls[t].pc = "return"
    /\ calls' = [calls EXCEPT ![t] =
                    [op |-> "NewJobService", pc |-> "done",
                     worker |-> calls[t].worker,
                     service |-> memoryService]]
    /\ ret' = [op |-> "NewJobService", service |-> memoryService]
    /\ effects' = <<>>
    /\ UNCHANGED <<known, repoVars, files, serviceVars, socksVars>>

(***************************************************************************)
(* Specification                                                           *)
(***************************************************************************)
\* the whole system
Next ==
    \/ \E a \in Agents : Register(a)
    \/ \E a \in Agents : RemoveAgent(a)
    \/ \E t \in Threads, a \in Targets, c \in AddInputs : Add(t, a, c[1], c[2])
    \/ \E t \in Threads, a \in Targets, j \in ChannelJobs :
          AddJobChannel(t, a, j, <<>>)
    \/ \E t \in Threads : AddJobChannelStep(t)
    \/ \E a \in Agents : Get(a)
    \/ \E a \in Agents : Clear(a)
    \/ ClearAll
    \/ \E t \in Threads, j \in InJobs : HandlerCall(t, <<j>>)
    \/ \E t \in Threads : HandlerStep(t)
    \/ \E a \in Agents, c \in BOOLEAN : SocksSend(a, c)
    \/ \E w \in 1..MaxNew : SocksReceive(w)
    \/ \E w \in 1..MaxNew : SocksBuild(w)
    \/ \E t \in Threads, a \in Targets : GetTableActive(t, a)
    \/ \E t \in Threads : GetTableActiveStep(t)
    \/ GetTableAll
    \/ \E t \in Threads : NewEnter(t)
    \/ \E t \in Threads : NewMake(t)
    \/ \E t \in Threads : NewGo(t)
    \/ \E t \in Threads : NewReturn(t)

Spec == Init /\ [][Next]_vars

\* the state after the first NewJobService call
InitReady ==
    /\ known = {}
    /\ queue = [a \in Agents |-> <<>>]
    /\ info = <<>>
    /\ nextId = 0
    /\ files = {}
    /\ memoryService = 1
    /\ instances = 1
    /\ workers = 1
    /\ newCalls = 1
    /\ jobsOut = <<>>
    /\ framesOut = 0
    /\ held = [w \in 1..MaxNew |-> None]
    /\ calls = [t \in Threads |-> None]
    /\ added = [a \in Agents |-> <<>>]
    /\ got = [a \in Agents |-> <<>>]
    /\ ret = [op |-> "NewJobService", service |-> 1]
    /\ effects = <<>>

\* the same with the agents registered
InitAgents ==
    /\ known = Agents
    /\ queue = [a \in Agents |-> <<>>]
    /\ info = <<>>
    /\ nextId = 0
    /\ files = {}
    /\ memoryService = 1
    /\ instances = 1
    /\ workers = 1
    /\ newCalls = 1
    /\ jobsOut = <<>>
    /\ framesOut = 0
    /\ held = [w \in 1..MaxNew |-> None]
    /\ calls = [t \in Threads |-> None]
    /\ added = [a \in Agents |-> <<>>]
    /\ got = [a \in Agents |-> <<>>]
    /\ ret = [op |-> "NewJobService", service |-> 1]
    /\ effects = <<>>

\* the agent that checks in with jobs
InSender == "a1"

\* the thread that serves the check-ins of the agents and the thread of the
\* operator's console
CheckIn == 1

Console == 2

\* the dispatcher: the operator gives an agent commands and clears them, the
\* agent drains its queue and sends jobs in
NextHandler ==
    \/ Add(Console, InSender, "sleep", <<"sleep", "30s">>)
    \/ AddJobChannelStep(Console)
    \/ Get(InSender)
    \/ Clear(InSender)
    \/ ClearAll
    \/ \E j \in {x \in InJobs : x.AgentID = InSender} :
          HandlerCall(CheckIn, <<j>>)
    \/ HandlerStep(CheckIn)

SpecHandler == InitAgents /\ [][NextHandler]_vars

\* the builder and the queue: agents come and go, the operator submits and
\* clears, the SOCKS worker queues frames, agents drain their queue
NextQueue ==
    \/ \E a \in Agents : Register(a)
    \/ \E a \in Agents : RemoveAgent(a)
    \/ \E a \in Targets, c \in AddInputs : Add(Console, a, c[1], c[2])
    \/ AddJobChannelStep(Console)
    \/ \E a \in Agents : Get(a)
    \/ \E a \in Agents : Clear(a)

SpecQueue == InitReady /\ [][NextQueue]_vars

\* the order of the queue: commands of the operator and frames of the SOCKS
\* layer for registered agents, and the agents' drains
NextFifo ==
    \/ \E a \in Targets : Add(Console, a, "sleep", <<"sleep", "30s">>)
    \/ AddJobChannelStep(Console)
    \/ \E a \in Agents : Get(a)
    \/ \E a \in Agents : SocksSend(a, FALSE)
    \/ SocksReceive(1)
    \/ SocksBuild(1)

SpecFifo == InitAgents /\ [][NextFifo]_vars

\* the FILETRANSFER jobs the agent that checks in can send, with the id of
\* a JobInfo: with its token a file of either location, and for the first
\* location also a blob that is no base64 and the flag of a download the
\* server asks for; with another token one file
FileJobs ==
    {Job(id, InSender, info[id].token, "FILETRANSFER", p) :
        id \in DOMAIN info,
        p \in {q \in {FileTransfer(l, b, d) :
                         l \in {"/etc/passwd", "dir/"},
                         b \in {"Zm9v", "Zm9"}, d \in BOOLEAN} :
                  \/ q.FileLocation = "/etc/passwd"
                  \/ q.FileBlob = "Zm9v" /\ q.IsDownload}}
    \cup {Job(id, InSender, SocksToken, "FILETRANSFER",
              FileTransfer("/etc/passwd", "Zm9v", TRUE)) :
             id \in DOMAIN info}

\* files sent in by an agent: the operator asks it for a download, the agent
\* drains its queue and sends the file; the agent can be removed meanwhile
NextFile ==
    \/ Add(Console, InSender, "download", <<"/etc/passwd">>)
    \/ AddJobChannelStep(Console)
    \/ Get(InSender)
    \/ RemoveAgent(InSender)
    \/ \E j \in FileJobs : HandlerCall(CheckIn, <<j>>)
    \/ HandlerStep(CheckIn)

SpecFile == InitAgents /\ [][NextFile]_vars

\* construction and the SOCKS workers: callers construct the service,
\* agents register, the SOCKS layer sends frames, the workers queue them,
\* agents drain their queue
NextService ==
    \/ \E t \in Threads : NewEnter(t)
    \/ \E t \in Threads : NewMake(t)
    \/ \E t \in Threads : NewGo(t)
    \/ \E t \in Threads : NewReturn(t)
    \/ \E a \in Agents : Register(a)
    \/ \E a \in Agents, c \in BOOLEAN : SocksSend(a, c)
    \/ \E w \in 1..MaxNew : SocksReceive(w)
    \/ \E w \in 1..MaxNew : SocksBuild(w)
    \/ \E a \in Agents : Get(a)

SpecService == Init /\ [][NextService]_vars

\* the jobs an agent sends in with the id and the token of the newest
\* JobInfo, of any type
AdvanceJobs ==
    {Job(InfoID(nextId), InSender, InfoToken(nextId), TypeOfPayload(p), p) :
        p \in IF nextId = 0 THEN {} ELSE InPayloads}

\* the SOCKS bridge after the first construction: further callers ask for
\* the service, agents register, the SOCKS layer sends frames, the workers
\* queue them, agents drain their queue
NextBridge ==
    \/ \E t \in Threads : NewEnter(t)
    \/ \E t \in Threads : NewMake(t)
    \/ \E t \in Threads : NewGo(t)
    \/ \E t \in Threads : NewReturn(t)
    \/ \E a \in Agents : Register(a)
    \/ \E a \in Agents, c \in BOOLEAN : SocksSend(a, c)
    \/ \E w \in 1..MaxNew : SocksReceive(w)
    \/ \E w \in 1..MaxNew : SocksBuild(w)
    \/ \E a \in Agents : Get(a)

SpecBridge == InitReady /\ [][NextBridge]_vars

\* one agent and its jobs: the operator gives it commands, it drains its
\* queue and sends in one job at a time, of any type; the agent can be
\* removed meanwhile
NextAdvance ==
    \/ Add(Console, InSender, "sleep", <<"sleep", "30s">>)
    \/ AddJobChannelStep(Console)
    \/ Get(InSender)
    \/ RemoveAgent(InSender)
    \/ \E j \in AdvanceJobs : HandlerCall(CheckIn, <<j>>)
    \/ HandlerStep(CheckIn)

SpecAdvance == InitAgents /\ [][NextAdvance]_vars

\* the kinds of the switch of Add
VocabKinds ==
    BareControl \cup BareModule \cup PlainModule \cup PlainNative
    \cup ControlFirstArg
    \cup {"ifconfig", "list-assemblies", "shell", "ls", "download",
          "changelistener", "exit", "pwd", "rm", "run", "exec",
          "invoke-assembly", "load-clr", "load-assembly", "memfd",
          "shellcode", "upload"}

\* the calls of Add: every kind and one that is none, without arguments and
\* with two; uploads and shellcode with the arguments that matter to them
AddCalls ==
    {<<k, a>> : k \in VocabKinds \cup {"bogus"},
                a \in {<<>>, <<"/tmp/x", "/c/x">>}}
    \cup {<<"upload", <<"/tmp/x">>>>,
          <<"upload", <<"/tmp/nofile", "/c/x">>>>,
          <<"shellcode", <<"self">>>>,
          <<"shellcode", <<"self", "AAAA">>>>,
          <<"shellcode", <<"remote", "12">>>>,
          <<"shellcode", <<"remote", "12", "AAAA">>>>,
          <<"shellcode", <<"remote", "abc", "AAAA">>>>,
          <<"shellcode", <<"other", "12", "AAAA">>>>,
          <<"sleep", <<"sleep", "30s">>>>}

\* the calls of Add that follow a first job
LaterCalls ==
    {<<"sleep", <<"sleep", "30s">>>>, <<"download", <<>>>>,
     <<"upload", <<"/tmp/x", "/c/x">>>>, <<"bogus", <<>>>>}

\* the builder: the operator gives one agent a command of any kind, and
\* then some more
NextAdd ==
    \/ \E c \in AddCalls :
          /\ nextId = 0 \/ c \in LaterCalls
          /\ Add(Console, InSender, c[1], c[2])
    \/ AddJobChannelStep(Console)

SpecAdd == InitAgents /\ [][NextAdd]_vars

\* the agent directory: one agent registers and is removed while the
\* operator gives commands to it, to an agent that never registered and to
\* all agents, and the SOCKS layer sends frames for them
NextDirectory ==
    \/ Register(InSender)
    \/ RemoveAgent(InSender)
    \/ \E a \in Targets : Add(Console, a, "sleep", <<"sleep", "30s">>)
    \/ \E a \in Targets : Add(Console, a, "download", <<>>)
    \/ \E a \in Targets, j \in ChannelJobs :
          AddJobChannel(Console, a, j, <<>>)
    \/ AddJobChannelStep(Console)
    \/ \E a \in Targets : SocksSend(a, FALSE)
    \/ SocksReceive(1)
    \/ SocksBuild(1)

SpecDirectory == InitReady /\ [][NextDirectory]_vars

\* the jobs an agent sends in with the id and the token of the newest
\* JobInfo: a result and a frame of a connection that stays open
HistoryJobs ==
    {Job(InfoID(nextId), InSender, InfoToken(nextId), TypeOfPayload(p), p) :
        p \in IF nextId = 0 THEN {}
              ELSE {Results("out", ""), Socks(SocksConn, 1, FALSE)}}

\* the life of the JobInfo records: commands for one agent and for all,
\* drains, clears and inbound jobs
NextHistory ==
    \/ \E a \in {InSender, BroadcastID} :
          Add(Console, a, "sleep", <<"sleep", "30s">>)
    \/ AddJobChannelStep(Console)
    \/ \E a \in Agents : Get(a)
    \/ Clear(InSender)
    \/ ClearAll
    \/ \E j \in HistoryJobs : HandlerCall(CheckIn, <<j>>)
    \/ HandlerStep(CheckIn)

SpecHistory == InitAgents /\ [][NextHistory]_vars

\* the job tables of the console: commands for the agents, drains, a clear,
\* inbound jobs, and the two tables
NextTable ==
    \/ \E a \in Agents : Add(Console, a, "sleep", <<"sleep", "30s">>)
    \/ AddJobChannelStep(Console)
    \/ \E a \in Agents : Get(a)
    \/ Clear(InSender)
    \/ \E j \in HistoryJobs : HandlerCall(CheckIn, <<j>>)
    \/ HandlerStep(CheckIn)
    \/ \E a \in Targets : GetTableActive(Console, a)
    \/ GetTableActiveStep(Console)
    \/ GetTableAll

SpecTable == InitAgents /\ [][NextTable]_vars

\* the jobs two check-ins of an agent bring at the same time: a file and
\* the last frame of a connection, with the id and the token of the newest
\* JobInfo
RaceJobs ==
    {Job(InfoID(nextId), InSender, InfoToken(nextId), TypeOfPayload(p), p) :
        p \in IF nextId = 0 THEN {}
              ELSE {FileTransfer("/etc/passwd", "Zm9v", TRUE),
                    Socks(SocksConn, 1, TRUE)}}

\* Handler calls of several threads next to the operator's command, its
\* clears and the agent's drains
NextRace ==
    \/ nextId = 0 /\ Add(Console, InSender, "sleep", <<"sleep", "30s">>)
    \/ AddJobChannelStep(Console)
    \/ Get(InSender)
    \/ Clear(InSender)
    \/ \E t \in Threads, j \in RaceJobs : HandlerCall(t, <<j>>)
    \/ \E t \in Threads : HandlerStep(t)

SpecRace == InitAgents /\ [][NextRace]_vars

\* NewJobService calls of several threads, while agents register and the
\* SOCKS layer sends frames
NextConstruct ==
    \/ \E t \in Threads : NewEnter(t)
    \/ \E t \in Threads : NewMake(t)
    \/ \E t \in Threads : NewGo(t)
    \/ \E t \in Threads : NewReturn(t)
    \/ \E a \in Agents : Register(a)
    \/ \E a \in Agents : SocksSend(a, FALSE)

SpecConstruct == Init /\ [][NextConstruct]_vars

\* the jobs of a batch.  From the agent that checks in: each payload with
\* the id and the token of the newest JobInfo, a frame with that id and
\* another token, and results and a frame with the id of the SOCKS layer,
\* which has no JobInfo.  From an agent that never registered: results with
\* the id of the newest JobInfo.
BatchJobs ==
    (IF nextId > 0
     THEN {Job(InfoID(nextId), InSender, InfoToken(nextId),
               TypeOfPayload(p), p) :
              p \in {Results("out", ""), Socks(SocksConn, 1, FALSE),
                     FileTransfer("/etc/passwd", "Zm9v", TRUE)}}
          \cup {Job(InfoID(nextId), InSender, SocksToken, "SOCKS",
                    Socks(SocksConn, 1, FALSE))}
          \cup {Job(InfoID(nextId), a, InfoToken(nextId), "RESULT",
                    Results("out", "")) : a \in Agents \ {InSender}}
     ELSE {})
    \cup {Job(SocksID, InSender, SocksToken, TypeOfPayload(p), p) :
             p \in {Results("out", ""), Socks(SocksConn, 1, FALSE)}}

\* batches: one agent registers and is removed, the operator gives it a
\* command, it drains its queue and sends in two jobs at a time
NextBatch ==
    \/ Register(InSender)
    \/ RemoveAgent(InSender)
    \/ nextId = 0 /\ Add(Console, InSender, "sleep", <<"sleep", "30s">>)
    \/ AddJobChannelStep(Console)
    \/ Get(InSender)
    \/ \E x, y \in BatchJobs : HandlerCall(CheckIn, <<x, y>>)
    \/ HandlerStep(CheckIn)

SpecBatch == InitReady /\ [][NextBatch]_vars

(***************************************************************************)
(* Claims about the dispatcher, under SpecHandler.                         *)
(***************************************************************************)
\* the only job of the last Handler call
InJob == ret.agentJobs[1]

\* the last call was Handler with one job whose id has a JobInfo
HandledKnown ==
    /\ ret.op = "Handler"
    /\ Len(ret.agentJobs) = 1
    /\ InJob.ID \in DOMAIN info

\* C1: token authentication.  A job given to Handler whose id is known and
\* whose token is not the token stored in the JobInfo is rejected, whatever
\* its type: Handler returns an error, it has written no JobInfo back, and
\* nothing is logged, broadcast, written or forwarded.
C1_BadTokenRejected ==
    (HandledKnown /\ InJob.Token # info[InJob.ID].token)
        => /\ ret.err # Nil
           /\ ret.updated = <<>>
           /\ effects = <<>>

\* C2: once-only completion.  A job given to Handler with the id and the
\* token of a JobInfo that an earlier Handler call completed is rejected:
\* Handler returns an error and nothing is logged, broadcast, written or
\* forwarded.
C2_CompletedRejected ==
    (HandledKnown /\ InJob.Token = info[InJob.ID].token
                  /\ ret.pre[1] = COMPLETE)
        => /\ ret.err # Nil
           /\ effects = <<>>

\* the terminal statuses
Terminal == {COMPLETE, CANCELED}

\* C3: terminal statuses are absorbing.  No step changes the status of a
\* JobInfo that is COMPLETE or CANCELED.
C3_TerminalAbsorbing ==
    [][\A id \in DOMAIN info :
          info[id].status \in Terminal
              => info'[id].status = info[id].status]_vars

\* the status changes of the state machine
LegalChanges ==
    {<<CREATED, SENT>>, <<CREATED, CANCELED>>, <<SENT, ACTIVE>>,
     <<ACTIVE, ACTIVE>>, <<SENT, COMPLETE>>, <<ACTIVE, COMPLETE>>}

\* C10: legal status transitions only.  Every step that changes the status
\* of a JobInfo makes one of the changes of the state machine.
C10_LegalTransitions ==
    [][\A id \in DOMAIN info :
          info'[id].status # info[id].status
              => <<info[id].status, info'[id].status>> \in LegalChanges]_vars

\* C4: a successful Add against the broadcast identifier has made one JobInfo
\* for each agent known when AddJobChannel listed them, and queued one job
\* for each; the JobInfo ids, the JobInfo tokens and the ids of the queued
\* jobs are pairwise distinct.
C4_FanOutDistinct ==
    (ret.op = "Add" /\ ret.agent = BroadcastID /\ ret.err = Nil) =>
        LET c == ret.created
            K == 1..Len(c)
        IN  /\ Len(c) = Cardinality(ret.snap)
            /\ {c[k].agent : k \in K} = ret.snap
            /\ \A k \in K : /\ c[k].infoID \in DOMAIN info
                            /\ info[c[k].infoID].agentID = c[k].agent
            /\ \A k, l \in K : k # l => /\ c[k].infoID # c[l].infoID
                                        /\ c[k].infoToken # c[l].infoToken
                                        /\ c[k].jobID # c[l].jobID

\* C6: Clear(agent) empties that agent's queue and leaves every other queue
\* alone; a JobInfo of that agent that was CREATED is CANCELED, every other
\* JobInfo keeps its status.
C6_ClearExact ==
    ret.op = "Clear" =>
        /\ queue = [ret.before.queue EXCEPT ![ret.agent] = <<>>]
        /\ \A id \in DOMAIN ret.before.info :
              info[id].status =
                  IF /\ ret.before.info[id].agentID = ret.agent
                     /\ ret.before.info[id].status = CREATED
                  THEN CANCELED
                  ELSE ret.before.info[id].status

\* C7: an Add that returned an error has stored no job and no JobInfo.
C7_FailedAddStoresNothing ==
    (ret.op = "Add" /\ ret.err \notin {Nil, "panic"}) => ret.created = <<>>

\* C5: for every agent, the jobs taken from its queue so far followed by
\* the jobs still queued are the jobs buildJob queued for it, in the order
\* it queued them.
C5_Fifo == \A a \in Agents : added[a] = got[a] \o queue[a]

\* a drain has returned a SOCKS frame and a command that were queued in
\* that order
C5_Witness ==
    /\ ret.op = "Get"
    /\ Len(ret.jobs) = 2
    /\ ret.jobs[1].Type = "SOCKS"
    /\ ret.jobs[2].Type = "CONTROL"
    /\ added[ret.agent] = ret.jobs

\* the location ends in a file name that starts at position k + 1
NameStartsAfter(loc, k) ==
    /\ k < Len(loc)
    /\ k = 0 \/ CharAt(loc, k) = "/"
    /\ \A i \in (k + 1)..Len(loc) : CharAt(loc, i) # "/"
    /\ SubSeq(loc, k + 1, Len(loc)) \notin {".", ".."}

\* Handler was given one FILETRANSFER job of an agent that Exist found, with
\* the id of a JobInfo that was not COMPLETE or CANCELED and its token, a
\* blob that is base64 and a location that ends in a file name, and
\* data/agents was there if the call looked
FileJobHandled ==
    /\ HandledKnown
    /\ InJob.Type = "FILETRANSFER"
    /\ ret.knew = <<TRUE>>
    /\ InJob.Token = info[InJob.ID].token
    /\ ret.pre[1] \notin Terminal
    /\ StdDecode(InJob.Payload.FileBlob).ok
    /\ \E k \in 0..Len(InJob.Payload.FileLocation) :
          NameStartsAfter(InJob.Payload.FileLocation, k)
    /\ ret.fs.agentsDir

\* data/agents/<agent>/<file name of the location> exists with mode 0600
\* and contents whose base64 encoding is the blob
Landed(job) ==
    \E f \in files, k \in 0..Len(job.Payload.FileLocation) :
        /\ NameStartsAfter(job.Payload.FileLocation, k)
        /\ f.path = "data/agents/" \o job.AgentID \o "/" \o
                    SubSeq(job.Payload.FileLocation, k + 1,
                           Len(job.Payload.FileLocation))
        /\ f.mode = "0600"
        /\ StdEncode(f.data) = job.Payload.FileBlob

\* C8: file landing.  When Handler has returned nil from a FILETRANSFER job
\* that an agent sent in with is_download = false, for a known agent, with
\* a valid id and its token, and data/agents exists, the job is COMPLETE
\* and the file data/agents/<agent>/<file name> is there with mode 0600
\* and the decoded blob as its contents.
C8_FileLandingNotDownload ==
    (FileJobHandled /\ ~InJob.Payload.IsDownload /\ ret.err = Nil) =>
        /\ Landed(InJob)
        /\ info[InJob.ID].status = COMPLETE

\* the calls of NewJobService that have returned
Returns == {t \in Threads : calls[t] # None /\ calls[t].op = "NewJobService"
                                            /\ calls[t].pc = "done"}

\* C9: when NewJobService calls have returned and no call is between two of
\* its statements, there is one Service instance, every call returned it,
\* and one socksJobs worker is running.
C9_SingletonOneWorker ==
    (/\ Returns # {}
     /\ \A t \in Threads : calls[t] # None => t \in Returns)
    => /\ instances = 1
       /\ \A t \in Returns : calls[t].service = memoryService
       /\ workers = 1

\* Handler was given a batch of two jobs
BatchHandled == ret.op = "Handler" /\ Len(ret.agentJobs) = 2

\* the jobs of the batch whose turn came: all of them, or those up to the
\* one Handler returned at
Turns == Len(ret.pre)

\* C11: when the first job of a batch comes from a known agent and its id
\* has no JobInfo, Handler returns an error at that job unless it is a
\* RESULT job; after a RESULT job the next job of the batch gets its turn.
C11_UnknownJobID ==
    (/\ BatchHandled
     /\ ret.knew[1]
     /\ ret.pre[1] = "none")
    => IF InJob.Type = "RESULT" THEN Turns = 2
       ELSE ret.err # Nil /\ Turns = 1

\* the status Handler gives the JobInfo of a job it has dispatched
Target(job) ==
    IF job.Type = "SOCKS" /\ ~job.Payload.Close THEN ACTIVE ELSE COMPLETE

\* the ids and the statuses of the JobInfo records the call has written
\* back, in the order in which it wrote them
Written ==
    [k \in 1..Len(ret.updated) |->
        <<ret.updated[k].id, ret.updated[k].status>>]

\* what the call writes back for job k of the batch when it dispatches it:
\* nothing when Exist did not find the agent of the job
Mark(k) ==
    IF ret.knew[k]
    THEN <<<<ret.agentJobs[k].ID, Target(ret.agentJobs[k])>>>>
    ELSE <<>>

\* what the call logged, broadcast, wrote and forwarded in turn k
Left(k) ==
    SubSeq(effects, ret.at[k] + 1,
           IF k < Turns THEN ret.at[k + 1] ELSE Len(effects))

\* the log line of an error of fileTransfer
ErrorLog(e) ==
    /\ e.kind = "log"
    /\ e.what \in {"error locating the agent's directory",
                   "error decoding the fileBlob", "error writing"}

\* C13: Handler takes the jobs of a batch in order and returns at the first
\* job that fails.  It returns nil only when both jobs had their turn, and
\* has then advanced the JobInfo of both.  When it returns an error, the job
\* whose turn it was is the failing one: the jobs before it have their
\* JobInfo advanced, no JobInfo is written back for the failing job and the
\* jobs after it, and the failing job is not dispatched: its turn has
\* written no file, forwarded no frame, updated no agent information and
\* sent no message, the log of the error apart.
C13_BatchAbort ==
    BatchHandled =>
        /\ ret.err = Nil =>
              /\ Turns = 2
              /\ Written = Mark(1) \o Mark(2)
        /\ ret.err # Nil =>
              /\ Written = IF Turns = 2 THEN Mark(1) ELSE <<>>
              /\ \A k \in 1..Len(Left(Turns)) : ErrorLog(Left(Turns)[k])

\* C14: a job of a batch whose agent Exist does not find gives a warning
\* broadcast and nothing else: its turn leaves that one broadcast, no
\* JobInfo is written back for it, the next job gets its turn, and Handler
\* does not return an error for it.
C14_UnknownAgent ==
    BatchHandled =>
        \A k \in 1..Turns :
            ~ret.knew[k] =>
                /\ Left(k) = <<BroadcastMsg("warn", ret.agentJobs[k].AgentID,
                                            ret.agentJobs[k].ID,
                                            "invalid agent")>>
                /\ k = 1 => Turns = 2
                /\ k = Turns => ret.err = Nil
                /\ Written = (IF k = 2 THEN Mark(1) ELSE <<>>)
                             \o (IF k = 1 /\ ret.err = Nil THEN Mark(2)
                                 ELSE <<>>)

\* a batch with a job of an unknown agent first: Handler warned of it,
\* completed the job that came after it and returned nil
C14_Witness ==
    /\ BatchHandled
    /\ ret.knew = <<FALSE, TRUE>>
    /\ ret.err = Nil
    /\ ret.pre[2] = SENT
    /\ Left(1) = <<BroadcastMsg("warn", InJob.AgentID, InJob.ID,
                                "invalid agent")>>
    /\ Written = <<<<ret.agentJobs[2].ID, COMPLETE>>>>

\* Handler was given one job that passes the checks: Exist found its agent,
\* its id has a JobInfo, its token is the stored one and the JobInfo was
\* not COMPLETE or CANCELED when the call last read it
ValidHandled ==
    /\ HandledKnown
    /\ ret.knew = <<TRUE>>
    /\ InJob.Token = info[InJob.ID].token
    /\ ret.pre[1] \notin Terminal

\* C12 as stated: every job that passes the checks leaves its JobInfo
\* ACTIVE (a SOCKS frame that does not close) or COMPLETE (any other job).
C12_AdvanceAlways ==
    ValidHandled => info[InJob.ID].status = Target(InJob)

\* C12 (amended): a job that passes the checks leaves its JobInfo ACTIVE (a
\* SOCKS frame that does not close) or COMPLETE (any other job) when
\* Handler returns nil.  Handler returns an error for such a job only when
\* the dispatch of a FILETRANSFER or AGENTINFO job fails or the agent has
\* been removed while the call was under way, and it has then written no
\* JobInfo back.
C12_StatusAdvance ==
    ValidHandled =>
        \/ ret.err = Nil /\ info[InJob.ID].status = Target(InJob)
        \/ /\ ret.err # Nil
           /\ \/ InJob.Type \in {"FILETRANSFER", "AGENTINFO"}
              \/ InJob.AgentID \notin known
           /\ ret.updated = <<>>

\* a SOCKS frame that does not close has made a SENT job ACTIVE
C12_Witness ==
    /\ ValidHandled
    /\ InJob.Type = "SOCKS"
    /\ ~InJob.Payload.Close
    /\ ret.pre[1] = SENT
    /\ ret.err = Nil
    /\ info[InJob.ID].status = ACTIVE

\* C15: when a worker has built the job for a frame it took from
\* socks.JobsOut, the worker holds no frame any more; if the frame's agent
\* is known, the frame, with its own id and token, is the last job of that
\* agent's queue and nothing is sent to the CLI; if not, the queue and the
\* JobInfo records are as before and one error message is sent to the CLI.
\* A Get returns the agent's whole queue, the frames in it included.
C15_SocksBridge ==
    [][/\ (ret' # ret /\ ret'.op = "socksJobs") =>
              LET f == ret'.frame
              IN  /\ \E w \in 1..MaxNew : /\ held[w] # None
                                         /\ held[w].job = f
                                         /\ held'[w] = None
                  /\ IF f.AgentID \in known
                     THEN /\ ret'.err = Nil
                          /\ queue' = [queue EXCEPT
                                          ![f.AgentID] = Append(@, f)]
                          /\ \A k \in 1..Len(effects') :
                                effects'[k].kind # "cli"
                     ELSE /\ ret'.err # Nil
                          /\ queue' = queue
                          /\ info' = info
                          /\ Len(effects') = 1
                          /\ effects'[1].kind = "cli"
       /\ (ret' # ret /\ ret'.op = "Get") =>
              /\ ret'.jobs = queue[ret'.agent]
              /\ queue'[ret'.agent] = <<>>]_vars

\* a Get has returned two frames of one connection, with the id and the
\* token the SOCKS layer gave them
C15_Witness ==
    /\ ret.op = "Get"
    /\ Len(ret.jobs) = 2
    /\ \A k \in 1..2 : /\ ret.jobs[k].Type = "SOCKS"
                       /\ ret.jobs[k].ID = SocksID
                       /\ ret.jobs[k].Token = SocksToken
    /\ ret.jobs[1].Payload.Index # ret.jobs[2].Payload.Index

\* the kinds that need at least one argument
NeedArgument ==
    {"download", "changelistener", "exit", "ja3", "killdate", "maxretry",
     "padding", "pwd", "rm", "run", "exec", "shellcode", "skew", "sleep",
     "upload", "load-assembly", "memfd", "invoke-assembly", "load-clr"}

\* the call has fewer arguments than its kind needs
TooFew(jobType, jobArgs) ==
    /\ jobType \in NeedArgument
    /\ \/ Len(jobArgs) = 0
       \/ jobType = "upload" /\ Len(jobArgs) < 2
       \/ jobType = "shellcode" /\ Len(jobArgs) < 2
       \/ jobType = "shellcode" /\ jobArgs[1] \in PidMethods
                                /\ Len(jobArgs) < 3

\* C16: an Add with too few arguments for its kind returns an error and
\* stores nothing; it does not abort.
C16_MissingArguments ==
    (ret.op = "Add" /\ TooFew(ret.jobType, ret.jobArgs)) =>
        /\ ret.err \notin {Nil, "panic"}
        /\ ret.created = <<>>

\* the type each kind of command has in the vocabulary table
TableType ==
    [k \in {"agentInfo", "initialize", "exit", "changelistener", "ja3",
            "killdate", "maxretry", "padding", "skew", "sleep"}
        |-> "CONTROL"]
    @@ [k \in {"cd", "env", "ifconfig", "ls", "killprocess", "nslookup",
               "pwd", "rm", "sdelete", "touch"} |-> "NATIVE"]
    @@ [k \in {"run", "exec", "shell"} |-> "CMD"]
    @@ [k \in {"CreateProcess", "invoke-assembly", "link", "listener",
               "list-assemblies", "load-assembly", "load-clr", "memory",
               "memfd", "Minidump", "netstat", "pipes", "ps", "runas",
               "ssh", "token", "unlink", "uptime"} |-> "MODULE"]
    @@ [k \in {"download", "upload"} |-> "FILETRANSFER"]
    @@ [k \in {"shellcode"} |-> "SHELLCODE"]

\* the job at the end of the queue of the agent of the last call
LastQueued == queue[ret.agent][Len(queue[ret.agent])]

\* C17: an Add that succeeds is of a kind of the table and has queued one
\* job of the type the table gives; a download names args[0] with
\* is_download false, an upload names the remote path with is_download
\* true.  An Add of a kind outside the table returns an error and stores
\* nothing.
C17_Vocabulary ==
    ret.op = "Add" =>
        /\ ret.err = Nil =>
              /\ ret.jobType \in DOMAIN TableType
              /\ Len(ret.created) = 1
              /\ LastQueued.ID = ret.created[1].jobID
              /\ LastQueued.Type = TableType[ret.jobType]
              /\ ret.jobType = "download" =>
                    /\ LastQueued.Payload.FileLocation = ret.jobArgs[1]
                    /\ ~LastQueued.Payload.IsDownload
              /\ ret.jobType = "upload" =>
                    /\ LastQueued.Payload.FileLocation = ret.jobArgs[2]
                    /\ LastQueued.Payload.IsDownload
        /\ ret.jobType \notin DOMAIN TableType =>
              /\ ret.err \notin {Nil, "panic"}
              /\ ret.created = <<>>

\* an upload has queued the contents of the file for the remote path
C17_Witness ==
    /\ ret.op = "Add"
    /\ ret.jobType = "upload"
    /\ ret.err = Nil
    /\ LastQueued.Type = "FILETRANSFER"
    /\ LastQueued.Payload = FileTransfer("/c/x", "aGVsbG8=", TRUE)

\* the repository changes in no way
NothingCreated == queue' = queue /\ info' = info

\* the JobInfo records a step adds
NewInfos == {info'[id] : id \in (DOMAIN info') \ (DOMAIN info)}

\* C18: an Add or AddJobChannel call for an agent that is not known returns
\* an error and creates neither a queued job nor a JobInfo, and so does the
\* buildJob of a turn of the fan-out and of a SOCKS frame; every new JobInfo
\* is for an agent that is known when it is stored.
C18_NoJobForUnknown ==
    [][/\ (/\ ret' # ret
           /\ ret'.op \in {"Add", "AddJobChannel"}
           /\ ret'.agent \notin known \cup {BroadcastID})
          => (ret'.err \notin {Nil, "panic"} /\ NothingCreated)
       /\ \A t \in Threads :
             (/\ calls[t] # None
              /\ calls[t].op \in {"Add", "AddJobChannel"}
              /\ calls[t].pc = "Agent"
              /\ calls'[t] # calls[t]
              /\ Head(calls[t].todo) \notin known)
             => (ret'.err \notin {Nil, "panic"} /\ NothingCreated)
       /\ \A w \in 1..MaxNew :
             (/\ held[w] # None
              /\ held[w].pc = "Agent"
              /\ held'[w] # held[w]
              /\ held[w].job.AgentID \notin known)
             => (ret'.err \notin {Nil, "panic"} /\ NothingCreated)
       /\ \A i \in NewInfos : i.agentID \in known
      ]_vars

\* the jobs in the queues
QueuedJobs ==
    UNION {{queue[a][k] : k \in 1..Len(queue[a])} : a \in DOMAIN queue}

\* no JobInfo and no queued job is for the broadcast identifier
NoBroadcastStored ==
    /\ \A id \in DOMAIN info : info[id].agentID # BroadcastID
    /\ \A j \in QueuedJobs : j.AgentID # BroadcastID

\* C19: after every step no JobInfo and no queued job has the broadcast
\* identifier as its agent; an Add or AddJobChannel for the broadcast
\* identifier that finds no agent listed returns an error and creates
\* nothing, and it panics only where the switch of Add panics on the
\* arguments.
C19_BroadcastNeverStored ==
    [][/\ NoBroadcastStored'
       /\ (/\ ret' # ret
           /\ calls' = calls
           /\ ret'.op \in {"Add", "AddJobChannel"}
           /\ ret'.agent = BroadcastID
           /\ known = {})
          => /\ ret'.err # Nil
             /\ ret'.err = "panic" =>
                   /\ ret'.op = "Add"
                   /\ AddSwitch(ret'.jobType, ret'.jobArgs).outcome = "panic"
             /\ ret'.created = <<>>
             /\ NothingCreated
      ]_vars

\* a command for all agents has queued its jobs, and a frame for the
\* broadcast identifier was turned down
C19_Witness ==
    /\ ret.op = "socksJobs"
    /\ ret.frame.AgentID = BroadcastID
    /\ ret.err # Nil
    /\ \E a \in Agents : \E k \in 1..Len(added[a]) : added[a][k].Type = "CONTROL"
    /\ info # <<>>
    /\ NoBroadcastStored

\* the jobs the drains have returned so far
Returned == UNION {{got[a][k] : k \in 1..Len(got[a])} : a \in DOMAIN got}

\* a drain returns the agent's whole queue, jobs of that agent only and none
\* that a drain returned before, without an error, and leaves the other
\* queues alone
DrainExact ==
    [][(ret' # ret /\ ret'.op = "Get") =>
          /\ ret'.err = Nil
          /\ ret'.jobs = queue[ret'.agent]
          /\ queue' = [queue EXCEPT ![ret'.agent] = <<>>]
          /\ \A k \in 1..Len(ret'.jobs) :
                /\ ret'.jobs[k].AgentID = ret'.agent
                /\ ret'.jobs[k] \notin Returned
      ]_vars

\* C20: Get returns all the queued jobs of the agent and only those, an
\* empty list without an error when there are none, and no job that a Get
\* returned before; afterwards the JobInfo of each returned job, the record
\* of that agent with the job's id, has status SENT.
C20_Drain ==
    [][(ret' # ret /\ ret'.op = "Get") =>
          /\ ret'.err = Nil
          /\ ret'.jobs = queue[ret'.agent]
          /\ queue' = [queue EXCEPT ![ret'.agent] = <<>>]
          /\ \A k \in 1..Len(ret'.jobs) :
                /\ ret'.jobs[k].AgentID = ret'.agent
                /\ ret'.jobs[k] \notin Returned
                /\ ret'.jobs[k].ID \in DOMAIN info'
                /\ info'[ret'.jobs[k].ID].agentID = ret'.agent
                /\ info'[ret'.jobs[k].ID].status = SENT
      ]_vars

\* C21: a JobInfo that exists is there after every step, under its own id
\* and for the same agent, with the type and the token it was made with;
\* no step of Add, Get, Clear, ClearAll or Handler deletes or replaces it.
C21_HistoryKept ==
    [][\A id \in DOMAIN info :
          /\ id \in DOMAIN info'
          /\ info'[id].id = id
          /\ info'[id].agentID = info[id].agentID
          /\ info'[id].jobType = info[id].jobType
          /\ info'[id].token = info[id].token
      ]_vars

\* a job was cancelled by a Clear and another completed by the Handler, and
\* both records are there
C21_Witness ==
    /\ \E id \in DOMAIN info : info[id].status = CANCELED
    /\ \E id \in DOMAIN info : info[id].status = COMPLETE
    /\ \A id \in DOMAIN info : info[id].id = id
    /\ Cardinality(DOMAIN info) = nextId

\* C22: a JobInfo is ACTIVE only if the job it was made for is a SOCKS job.
C22_ActiveOnlySocks ==
    \A id \in DOMAIN info :
        info[id].status = ACTIVE => info[id].jobType = "SOCKS"

\* the methods of a shellcode job
ShellcodeMethods == {"self"} \cup PidMethods

\* C23: a shellcode job that Add has queued has one of the four methods; for
\* the three methods that take a PID an argument that is no decimal number
\* gives an error and queues nothing; an Add of kind shellcode with another
\* method queues no job.
C23_ShellcodeMethod ==
    (ret.op = "Add" /\ ret.jobType = "shellcode" /\ Len(ret.jobArgs) > 0) =>
        /\ ret.err = Nil =>
              /\ LastQueued.Type = "SHELLCODE"
              /\ LastQueued.Payload.Method \in ShellcodeMethods
        /\ ret.jobArgs[1] \notin ShellcodeMethods => ret.created = <<>>
        /\ (/\ ret.jobArgs[1] \in PidMethods
            /\ Len(ret.jobArgs) > 1
            /\ ~Atoi(ret.jobArgs[2]).ok)
           => (ret.err \notin {Nil, "panic"} /\ ret.created = <<>>)

\* Handler was given one FILETRANSFER job whose file fileTransfer could not
\* put on the disk: data/agents is missing, the blob is no base64, or the
\* write fails
FileJobFails ==
    /\ HandledKnown
    /\ InJob.Type = "FILETRANSFER"
    /\ ret.msg # Nil

\* C24: when the file of an inbound FILETRANSFER job cannot be put on the
\* disk, Handler returns an error, the error is in the log of the agent,
\* the call has written no file, and it has written no JobInfo back: the
\* job keeps its status.
C24_TransferFailure ==
    FileJobFails =>
        /\ ret.err # Nil
        /\ ret.updated = <<>>
        /\ \E k \in 1..Len(effects) :
              /\ effects[k].kind = "log"
              /\ effects[k].agent = InJob.AgentID
              /\ effects[k].what = ret.msg
        /\ \A k \in 1..Len(effects) : effects[k].kind # "write"

\* C25: every job buildJob has queued, for a command, for each agent of a
\* broadcast and for a SOCKS frame, has the id and the token of the JobInfo
\* that was stored with it.
C25_JobInfoCorrelated ==
    ret.op \in {"Add", "socksJobs"} =>
        \A k \in 1..Len(ret.created) :
            /\ ret.created[k].jobID = ret.created[k].infoID
            /\ ret.created[k].jobToken = ret.created[k].infoToken

\* the jobs an agent has drained and those it will drain next, in order
Drained(a) == got[a] \o queue[a]

\* C28: the SOCKS frames of an agent are queued, and returned by Get, in the
\* order the SOCKS layer sent them (the order of their index), whatever the
\* number of NewJobService calls.
C28_FrameOrder ==
    \A a \in Agents :
        \A i, j \in 1..Len(Drained(a)) :
            (/\ i < j
             /\ Drained(a)[i].Type = "SOCKS"
             /\ Drained(a)[j].Type = "SOCKS")
            => Drained(a)[i].Payload.Index < Drained(a)[j].Payload.Index

\* the status column of a job table
TableLabel ==
    (CREATED :> "Created") @@ (SENT :> "Sent") @@ (ACTIVE :> "Active")
    @@ (RETURNED :> "Returned")

\* the ids of the JobInfo records that are neither complete nor canceled
OpenJobs == {id \in DOMAIN info : info[id].status \notin Terminal}

\* C29: GetTableActive returns an error for an agent that is not known, and
\* otherwise one row for each JobInfo of the agent that is neither COMPLETE
\* nor CANCELED and no other row; GetTableAll returns one row for each such
\* JobInfo of any agent; the status of each row is the name of the status
\* of its JobInfo.
C29_JobTables ==
    /\ ret.op = "GetTableActive" =>
          IF ret.agent \notin known THEN ret.err # Nil
          ELSE /\ ret.err = Nil
               /\ {row.id : row \in ret.rows}
                     = {id \in OpenJobs : info[id].agentID = ret.agent}
               /\ Cardinality(ret.rows)
                     = Cardinality({row.id : row \in ret.rows})
               /\ \A row \in ret.rows :
                     row.status = TableLabel[info[row.id].status]
    /\ ret.op = "GetTableAll" =>
          /\ {row.id : row \in ret.rows} = OpenJobs
          /\ Cardinality(ret.rows) = Cardinality(OpenJobs)
          /\ \A row \in ret.rows :
                /\ row.agent = info[row.id].agentID
                /\ row.status = TableLabel[info[row.id].status]

\* the same for GetTableActive alone
ActiveTableExact ==
    ret.op = "GetTableActive" =>
        IF ret.agent \notin known THEN ret.err # Nil
        ELSE /\ ret.err = Nil
             /\ {row.id : row \in ret.rows}
                   = {id \in OpenJobs : info[id].agentID = ret.agent}
             /\ \A row \in ret.rows :
                   row.status = TableLabel[info[row.id].status]

\* C26: a Handler call dispatches and completes a job only while the
\* JobInfo of the job is neither COMPLETE nor CANCELED: of two calls with the
\* same id and token one is turned down, and no Get, Clear or Handler call
\* comes between the check and the update of another.
C26_OnceOnly ==
    [][\A t \in Threads :
          (/\ calls[t] # None
           /\ calls[t].op = "Handler"
           /\ JobAt(calls[t]).Type # "RESULT"
           /\ calls'[t] = None
           /\ ret'.err = Nil)
          => info[JobAt(calls[t]).ID].status \notin Terminal
      ]_vars

\* C27: NewJobService calls made at the same time construct one Service
\* and all return it.
C27_OneService ==
    /\ instances <= 1
    /\ \A t, u \in Returns : calls[t].service = calls[u].service

====
